---- MODULE Spec2Model ----
(***************************************************************************)
(* Model of the docassemble MCP server: the DocassembleIndex class         *)
(* (src/unnamed/part_001, imported as ./indexer.js) and the start-up of    *)
(* the hosting process (src/mcp-docassemble-interviews/src/index.ts).      *)
(*                                                                         *)
(* A string is a sequence of one-character strings, so that splitting,     *)
(* lower-casing, substring tests, glob translation and pattern matching    *)
(* are computed character by character as the code computes them.          *)
(***************************************************************************)
EXTENDS Integers, Sequences, FiniteSets, TLC

VARIABLES
  fs,              \* the file system below basePath: a snapshot, never written
  files,           \* DocassembleIndex.files: Map in insertion order, as a sequence of IndexedFile
  examplesByName,  \* DocassembleIndex.examplesByName: base name -> IndexedFile
  keywordIndex,    \* DocassembleIndex.keywordIndex: lower-cased keyword -> set of relative paths
  initialized,     \* DocassembleIndex.initialized
  pc,              \* per caller of initialize(): "idle", "running" (suspended at an await), "done"
  pos,             \* per caller: how many files of its ingestion pass it has handed to indexFile
  ingestRuns,      \* how many calls of initialize() went past the `initialized` guard
  result,          \* the last call of a query operation: its name, arguments and return value
  mode,            \* the hosting process: "http" or "stdio" (process.argv includes '--stdio')
  hostPc,          \* the hosting process: where its start-up stands
  constructed,     \* the hosting process: `index` holds a DocassembleIndex
  serving,         \* the hosting process: app.listen / server.connect was called
  exitCode,        \* the hosting process: the status of process.exit, -1 while it runs
  env,             \* the hosting process: MCP_AUTH_TOKEN and MCP_ALLOWED_ORIGINS
  sessions,        \* the hosting process: the Map `sessions`, session id -> McpSession
  serversCreated,  \* how many times createMcpServer() was called for a session
  now,             \* Date.now(), in minutes
  response         \* the last request to /mcp and the response it was given

httpVars == <<env, sessions, serversCreated, now, response>>

hostVars == <<mode, hostPc, constructed, serving, exitCode, httpVars>>

vars ==
  <<fs, files, examplesByName, keywordIndex, initialized, pc, pos, ingestRuns, result,
    mode, hostPc, constructed, serving, exitCode, env, sessions, serversCreated, now, response>>

tables == <<files, examplesByName, keywordIndex>>

(* ------------------------------------------------------------------ *)
(* Strings                                                             *)
(* ------------------------------------------------------------------ *)

LowerAlphabet ==
  <<"a","b","c","d","e","f","g","h","i","j","k","l","m",
    "n","o","p","q","r","s","t","u","v","w","x","y","z">>

UpperAlphabet ==
  <<"A","B","C","D","E","F","G","H","I","J","K","L","M",
    "N","O","P","Q","R","S","T","U","V","W","X","Y","Z">>

LowerLetters == {LowerAlphabet[i] : i \in 1..26}

UpperLetters == {UpperAlphabet[i] : i \in 1..26}

Digits == {"0","1","2","3","4","5","6","7","8","9"}

\* \w of a JavaScript pattern
WordChars == LowerLetters \cup UpperLetters \cup Digits \cup {"_"}

\* \s of a JavaScript pattern, restricted to the characters of the model
WhiteSpace == {" ", "\t", "\n"}

LowerChar(c) ==
  IF c \in UpperLetters
  THEN LowerAlphabet[CHOOSE i \in 1..26 : UpperAlphabet[i] = c]
  ELSE c

toLowerCase(s) == [i \in 1..Len(s) |-> LowerChar(s[i])]

\* t occurs in s at 0-based offset p
OccursAt(s, t, p) ==
  /\ p >= 0
  /\ p + Len(t) <= Len(s)
  /\ \A k \in 1..Len(t) : s[p + k] = t[k]

includes(s, t) == \E p \in 0..(Len(s) - Len(t)) : OccursAt(s, t, p)

startsWith(s, t) == OccursAt(s, t, 0)

endsWith(s, t) == OccursAt(s, t, Len(s) - Len(t))

\* s.split(sep) for a one-character separator
split(s, sep) ==
  LET RECURSIVE go(_, _, _)
      go(i, cur, acc) ==
        IF i > Len(s) THEN Append(acc, cur)
        ELSE IF s[i] = sep THEN go(i + 1, <<>>, Append(acc, cur))
        ELSE go(i + 1, Append(cur, s[i]), acc)
  IN go(1, <<>>, <<>>)

\* lines.join(sep)
join(lines, sep) ==
  LET RECURSIVE go(_)
      go(i) ==
        IF i > Len(lines) THEN <<>>
        ELSE IF i = Len(lines) THEN lines[i]
        ELSE lines[i] \o <<sep>> \o go(i + 1)
  IN go(1)

\* s.split(/\s+/).filter(t => t.length > 0)
splitWhitespace(s) ==
  LET RECURSIVE go(_, _, _)
      go(i, cur, acc) ==
        IF i > Len(s) THEN (IF cur = <<>> THEN acc ELSE Append(acc, cur))
        ELSE IF s[i] \in WhiteSpace
             THEN go(i + 1, <<>>, IF cur = <<>> THEN acc ELSE Append(acc, cur))
        ELSE go(i + 1, Append(cur, s[i]), acc)
  IN go(1, <<>>, <<>>)

Min(S) == CHOOSE x \in S : \A y \in S : x <= y

Max(S) == CHOOSE x \in S : \A y \in S : x >= y

\* s.trim()
trim(s) ==
  LET nonWs == {i \in 1..Len(s) : s[i] \notin WhiteSpace}
  IN IF nonWs = {} THEN <<>> ELSE SubSeq(s, Min(nonWs), Max(nonWs))

\* a \b assertion holds between the characters at 1-based places p and p + 1
WordBoundary(s, p) ==
  LET isWord(i) == i >= 1 /\ i <= Len(s) /\ s[i] \in WordChars
  IN isWord(p) # isWord(p + 1)

SeqToSet(s) == {s[i] : i \in 1..Len(s)}

\* the place just after the longest run of characters of S that starts at place i
RunEnd(s, i, S) ==
  LET RECURSIVE go(_)
      go(j) == IF j <= Len(s) /\ s[j] \in S THEN go(j + 1) ELSE j
  IN go(i)

(* ------------------------------------------------------------------ *)
(* Paths (node's path module, POSIX)                                   *)
(* ------------------------------------------------------------------ *)

\* path.join(dir, name)
pathJoin(dir, name) == dir \o <<"/">> \o name

\* path.relative(base, p) for a p below base
pathRelative(base, p) ==
  IF startsWith(p, base \o <<"/">>) THEN SubSeq(p, Len(base) + 2, Len(p)) ELSE p

\* path.basename(p)
basename(p) ==
  LET slashes == {i \in 1..Len(p) : p[i] = "/"}
  IN IF slashes = {} THEN p ELSE SubSeq(p, Max(slashes) + 1, Len(p))

\* path.extname(p): from the last dot of the base name, unless that dot leads it
extname(p) ==
  LET b == basename(p)
      dots == {i \in 1..Len(b) : b[i] = "."}
  IN IF dots = {} \/ Max(dots) = 1 THEN <<>> ELSE SubSeq(b, Max(dots), Len(b))

\* path.basename(p, ext)
basenameExt(p, ext) ==
  LET b == basename(p)
  IN IF ext # <<>> /\ b # ext /\ endsWith(b, ext)
     THEN SubSeq(b, 1, Len(b) - Len(ext)) ELSE b

(* ------------------------------------------------------------------ *)
(* The file system                                                     *)
(* ------------------------------------------------------------------ *)

\* DOCASSEMBLE_REF_PATH resolved: the corpus root
basePath == <<"/","r">>

\* 'docassemble_base/docassemble/base/data/questions/examples', abbreviated
examplesPath == pathJoin(basePath, <<"e","x">>)

\* 'docassemble_demo/docassemble/demo/data/questions', abbreviated
demoQuestionsPath == pathJoin(basePath, <<"d","m">>)

\* 'docassemble_base/docassemble/base/data/templates', abbreviated
templatesPath == pathJoin(basePath, <<"t","p">>)

SubDir == pathJoin(examplesPath, <<"s">>)

File_ex_a == pathJoin(examplesPath, <<"a",".","y","m","l">>)

File_ex_n == pathJoin(examplesPath, <<"n",".","t","x","t">>)

File_ex_s_b == pathJoin(SubDir, <<"b",".","y","a","m","l">>)

File_dm_a == pathJoin(demoQuestionsPath, <<"a",".","y","m","l">>)

File_tp_t == pathJoin(templatesPath, <<"t",".","m","d">>)

\* Every directory the model's file system may hold, with the entries
\* fs.readdirSync lists for it, in the order it lists them.
DirUniverse ==
  (examplesPath :> << [name |-> <<"a",".","y","m","l">>, isDir |-> FALSE],
                      [name |-> <<"n",".","t","x","t">>, isDir |-> FALSE],
                      [name |-> <<"s">>, isDir |-> TRUE] >>)
  @@ (SubDir :> << [name |-> <<"b",".","y","a","m","l">>, isDir |-> FALSE] >>)
  @@ (demoQuestionsPath :> << [name |-> <<"a",".","y","m","l">>, isDir |-> FALSE] >>)
  @@ (templatesPath :> << [name |-> <<"t",".","m","d">>, isDir |-> FALSE] >>)

\* A file system is [dirs: the directories that exist,
\*                   files: path -> [readable, content] for the files that exist].
\* fs.existsSync(dirPath)
existsSync(fsys, dirPath) == dirPath \in fsys.dirs

\* fs.readdirSync(dirPath, {withFileTypes: true}): the entries that exist
readdirSync(fsys, dirPath) ==
  LET all == DirUniverse[dirPath]
      there(e) == IF e.isDir THEN pathJoin(dirPath, e.name) \in fsys.dirs
                  ELSE pathJoin(dirPath, e.name) \in DOMAIN fsys.files
  IN SelectSeq(all, there)

\* entry.name.endsWith('.yml') || entry.name.endsWith('.yaml') || entry.name.endsWith('.md')
AcceptedName(name) ==
  \/ endsWith(name, <<".","y","m","l">>)
  \/ endsWith(name, <<".","y","a","m","l">>)
  \/ endsWith(name, <<".","m","d">>)

\* indexDirectory: the calls of indexFile it makes, in order (the directory
\* walk reads the file system only, so the calls are a function of fs)
RECURSIVE indexDirectoryCalls(_, _, _)
indexDirectoryCalls(fsys, dirPath, type) ==
  IF ~existsSync(fsys, dirPath) THEN <<>>
  ELSE
    LET entries == readdirSync(fsys, dirPath)
        RECURSIVE walk(_)
        walk(i) ==
          IF i > Len(entries) THEN <<>>
          ELSE
            LET entry == entries[i]
                fullPath == pathJoin(dirPath, entry.name)
            IN (IF entry.isDir THEN indexDirectoryCalls(fsys, fullPath, type)
                ELSE IF AcceptedName(entry.name)
                     THEN << [filePath |-> fullPath, type |-> type] >>
                ELSE <<>>) \o walk(i + 1)
    IN walk(1)

\* initialize whose third pass registers the templates as 'doc'
IngestionCalls_TemplatesAsDocs(fsys) ==
  indexDirectoryCalls(fsys, examplesPath, "example")
    \o indexDirectoryCalls(fsys, demoQuestionsPath, "example")
    \o indexDirectoryCalls(fsys, templatesPath, "doc")

\* initialize: the three passes, in order
IngestionCalls(fsys) ==
  indexDirectoryCalls(fsys, examplesPath, "example")
    \o indexDirectoryCalls(fsys, demoQuestionsPath, "example")
    \o indexDirectoryCalls(fsys, templatesPath, "template")

(* ------------------------------------------------------------------ *)
(* Metadata extraction                                                 *)
(* ------------------------------------------------------------------ *)

\* the place just after the longest run of characters outside S that starts at place i
RunEndNot(s, i, S) ==
  LET RECURSIVE go(_)
      go(j) == IF j <= Len(s) /\ s[j] \notin S THEN go(j + 1) ELSE j
  IN go(i)

Quotes == {"\"", "'"}

\* content.match(/^metadata:\s*\n((?:[ \t]+[^\n]+\n?)*)/m): whether it matches, and group 1.
\* ^ matches at every line start; the greedy \s* runs over line breaks too and gives
\* back to the last line break of the white-space run; each block line starts with a
\* space or tab and holds at least two characters.
metadataMatch(content) ==
  LET key == <<"m","e","t","a","d","a","t","a",":">>
      after(i) == i + Len(key)
      newlines(i) ==
        {j \in after(i)..(RunEnd(content, after(i), WhiteSpace) - 1) : content[j] = "\n"}
      cands == {i \in 1..Len(content) :
                  /\ (i = 1 \/ content[i - 1] = "\n")
                  /\ OccursAt(content, key, i - 1)
                  /\ newlines(i) # {}}
      RECURSIVE blockEnd(_)
      blockEnd(j) ==
        LET e == RunEndNot(content, j, {"\n"})
        IN IF j <= Len(content) /\ content[j] \in {" ", "\t"} /\ e - j >= 2
           THEN (IF e <= Len(content) THEN blockEnd(e + 1) ELSE e)
           ELSE j
  IN IF cands = {} THEN [found |-> FALSE, block |-> <<>>]
     ELSE LET start == Max(newlines(Min(cands))) + 1
          IN [found |-> TRUE, block |-> SubSeq(content, start, blockEnd(start) - 1)]

\* block.match(/<key>\s*["']?([^"'\n]+)["']?/): whether it matches, and group 1.
\* The leftmost occurrence of the key that can be completed wins; \s* is greedy and
\* gives back one character at a time; the quote is taken when it can be.
fieldMatch(block, key) ==
  LET stop == Quotes \cup {"\n"}
      capStart(p) ==
        LET a == p + Len(key) + 1
            w == RunEnd(block, a, WhiteSpace)
            ok(q) == /\ q <= Len(block)
                     /\ IF block[q] \in Quotes
                        THEN q + 1 <= Len(block) /\ block[q + 1] \notin stop
                        ELSE block[q] # "\n"
            qs == {q \in a..w : ok(q)}
        IN IF qs = {} THEN 0
           ELSE IF block[Max(qs)] \in Quotes THEN Max(qs) + 1 ELSE Max(qs)
      occ == {p \in 0..(Len(block) - Len(key)) : OccursAt(block, key, p) /\ capStart(p) # 0}
  IN IF occ = {} THEN [found |-> FALSE, value |-> <<>>]
     ELSE LET c == capStart(Min(occ))
          IN [found |-> TRUE, value |-> SubSeq(block, c, RunEndNot(block, c, stop) - 1)]

\* parseInt(digits, 10)
parseInt(ds) ==
  LET val(c) == CHOOSE n \in 0..9 : ToString(n) = c
      RECURSIVE go(_, _)
      go(i, acc) == IF i > Len(ds) THEN acc ELSE go(i + 1, acc * 10 + val(ds[i]))
  IN go(1, 0)

\* block.match(/<key>\s*(\d+)/): whether it matches, and group 1
numberMatch(block, key) ==
  LET digitsAt(p) == RunEnd(block, p + Len(key) + 1, WhiteSpace)
      occ == {p \in 0..(Len(block) - Len(key)) :
                /\ OccursAt(block, key, p)
                /\ digitsAt(p) <= Len(block)
                /\ block[digitsAt(p)] \in Digits}
  IN IF occ = {} THEN [found |-> FALSE, value |-> <<>>]
     ELSE LET c == digitsAt(Min(occ))
          IN [found |-> TRUE, value |-> SubSeq(block, c, RunEnd(block, c, Digits) - 1)]

\* the metadata object with no field set
EmptyMetadata == [f \in {} |-> <<>>]

\* extractMetadata: a function from the names of the fields that were set to their values
extractMetadata(content) ==
  LET m == metadataMatch(content)
      titleMatch == fieldMatch(m.block, <<"t","i","t","l","e",":">>)
      shortTitleMatch == fieldMatch(m.block, <<"s","h","o","r","t"," ","t","i","t","l","e",":">>)
      docMatch == fieldMatch(m.block, <<"d","o","c","u","m","e","n","t","a","t","i","o","n",":">>)
      exampleStartMatch == numberMatch(m.block, <<"e","x","a","m","p","l","e"," ","s","t","a","r","t",":">>)
      exampleEndMatch == numberMatch(m.block, <<"e","x","a","m","p","l","e"," ","e","n","d",":">>)
      field(name, hit, value) == IF hit THEN name :> value ELSE EmptyMetadata
  IN IF ~m.found THEN EmptyMetadata
     ELSE field("title", titleMatch.found, trim(titleMatch.value))
          @@ field("shortTitle", shortTitleMatch.found, trim(shortTitleMatch.value))
          @@ field("documentation", docMatch.found, trim(docMatch.value))
          @@ field("exampleStart", exampleStartMatch.found, parseInt(exampleStartMatch.value))
          @@ field("exampleEnd", exampleEndMatch.found, parseInt(exampleEndMatch.value))

\* file.metadata?.title is truthy
HasTitle(file) == "title" \in DOMAIN file.metadata /\ file.metadata["title"] # <<>>

(* ------------------------------------------------------------------ *)
(* Ingestion                                                           *)
(* ------------------------------------------------------------------ *)

\* offsets that leave out the newline after each line
lineOffsetsOf_NoSeparator(lines) ==
  LET RECURSIVE go(_, _, _)
      go(i, offset, acc) ==
        IF i > Len(lines) THEN acc
        ELSE go(i + 1, offset + Len(lines[i]), Append(acc, offset))
  IN go(1, 0, <<>>)

\* lineOffsets of indexFile: the running sum of line.length + 1
lineOffsetsOf(lines) ==
  LET RECURSIVE go(_, _, _)
      go(i, offset, acc) ==
        IF i > Len(lines) THEN acc
        ELSE go(i + 1, offset + Len(lines[i]) + 1, Append(acc, offset))
  IN go(1, 0, <<>>)

\* the IndexedFile that indexFile builds from a file it could read
IndexedFile(filePath, type, content) ==
  LET lines == split(content, "\n")
  IN [ path |-> filePath,
       relativePath |-> pathRelative(basePath, filePath),
       content |-> content,
       lines |-> lines,
       lineOffsets |-> lineOffsetsOf(lines),
       type |-> type,
       metadata |-> extractMetadata(content) ]

\* a table that takes every file as a new entry
filesSet_AlwaysAppend(table, file) == Append(table, file)

\* Map.prototype.set on the file table: a known key keeps its place
filesSet(table, file) ==
  LET at == {i \in 1..Len(table) : table[i].relativePath = file.relativePath}
  IN IF at = {} THEN Append(table, file)
     ELSE [table EXCEPT ![Min(at)] = file]

\* Map.prototype.set on the by-name table
byNameSet(table, name, file) ==
  [n \in DOMAIN table \cup {name} |-> IF n = name THEN file ELSE table[n]]

\* an indexFile that registers a file whatever the read does
readFails_Never(fsys, filePath) == FALSE

\* fs.readFileSync(filePath, 'utf-8') throws
readFails(fsys, filePath) == ~fsys.files[filePath].readable

\* indexFile: the two tables after the call; a file that cannot be read leaves both alone
indexFile(fsys, table, byName, filePath, type) ==
  IF readFails(fsys, filePath) THEN [files |-> table, examplesByName |-> byName]
  ELSE
    LET indexedFile == IndexedFile(filePath, type, fsys.files[filePath].content)
        name == basenameExt(filePath, extname(filePath))
    IN [ files |-> filesSet(table, indexedFile),
         examplesByName |->
           IF type = "example" THEN byNameSet(byName, name, indexedFile) ELSE byName ]

(* ------------------------------------------------------------------ *)
(* The keyword index                                                   *)
(* ------------------------------------------------------------------ *)

\* Entries of the vocabulary of buildKeywordIndex: a multi-word keyword, short
\* keywords, and two keywords that differ in letter case only.
keywords == << <<"s","h","o","w"," ","i","f">>, <<"i","f">>, <<"n","a","m","e">>, <<"i","d">>, <<"N","a","m","e">> >>

\* a test for the keyword as written, its words one space apart
keywordRegexTest_LiteralSpace(keyword, content) ==
  \E p \in 1..Len(content) :
    /\ WordBoundary(content, p - 1)
    /\ OccursAt(toLowerCase(content), toLowerCase(keyword), p - 1)
    /\ WordBoundary(content, p - 1 + Len(keyword))

\* new RegExp(`\\b${keyword.replace(/\s+/g, '\\s+')}\\b`, 'gi').test(content), for a
\* keyword of letters and white space: its words, each pair one or more white-space
\* characters apart, between two word boundaries, letter case ignored
keywordRegexTest(keyword, content) ==
  LET words == splitWhitespace(toLowerCase(keyword))
      lower == toLowerCase(content)
      RECURSIVE matchWords(_, _)
      matchWords(k, p) ==
        /\ OccursAt(lower, words[k], p - 1)
        /\ LET a == p + Len(words[k])
               e == RunEnd(lower, a, WhiteSpace)
           IN IF k = Len(words) THEN WordBoundary(content, a - 1)
              ELSE e > a /\ matchWords(k + 1, e)
  IN \E p \in 1..Len(content) : WordBoundary(content, p - 1) /\ matchWords(1, p)

\* keywordIndex.get(key).add(relativePath), creating the set when the key is new
keywordAdd(index, key, relativePath) ==
  [k \in DOMAIN index \cup {key} |->
     IF k = key THEN (IF key \in DOMAIN index THEN index[key] ELSE {}) \cup {relativePath}
     ELSE index[k]]

\* buildKeywordIndex
buildKeywordIndex(table, index) ==
  LET RECURSIVE perKeyword(_, _, _)
      perKeyword(file, k, acc) ==
        IF k > Len(keywords) THEN acc
        ELSE perKeyword(file, k + 1,
               IF keywordRegexTest(keywords[k], file.content)
               THEN keywordAdd(acc, toLowerCase(keywords[k]), file.relativePath)
               ELSE acc)
      RECURSIVE perFile(_, _)
      perFile(i, acc) ==
        IF i > Len(table) THEN acc
        ELSE perFile(i + 1, perKeyword(table[i], 1, acc))
  IN perFile(1, index)

(* ------------------------------------------------------------------ *)
(* initialize                                                          *)
(* ------------------------------------------------------------------ *)

Callers == {"c1", "c2"}

NoResult == [op |-> "none"]

\* no request to /mcp is being answered
NoResponse == [status |-> 0, handled |-> FALSE]

\* no request was made: nothing is configured, the session table is as at module load
HttpIdle ==
  /\ env = [token |-> <<>>, origins |-> {}]
  /\ sessions = [id \in {} |-> 0]
  /\ serversCreated = 0
  /\ now = 0
  /\ response = NoResponse

\* The hosting process plays no part: the index was constructed by its caller
HostIdle ==
  /\ mode = "none"
  /\ hostPc = "none"
  /\ constructed = TRUE
  /\ serving = FALSE
  /\ exitCode = -1
  /\ HttpIdle

\* The state after `new DocassembleIndex(basePath)`
IndexConstructed ==
  /\ files = <<>>
  /\ examplesByName = [n \in {} |-> <<>>]
  /\ keywordIndex = [k \in {} |-> {}]
  /\ initialized = FALSE

\* one call of indexFile by caller c: the next file of its pass
IngestOne(c, k) ==
  LET call == IngestionCalls(fs)[k]
      after == indexFile(fs, files, examplesByName, call.filePath, call.type)
  IN /\ files' = after.files
     /\ examplesByName' = after.examplesByName
     /\ pos' = [pos EXCEPT ![c] = k]

\* initialize without its first line, `if (this.initialized) return`
InitializeBody_Unguarded(c) ==
  /\ pc[c] \in {"idle", "done"}
  /\ pc' = [pc EXCEPT ![c] = "running"]
  /\ ingestRuns' = ingestRuns + 1
  /\ IF IngestionCalls(fs) = <<>>
     THEN /\ pos' = [pos EXCEPT ![c] = 0]
          /\ UNCHANGED <<files, examplesByName>>
     ELSE IngestOne(c, 1)
  /\ UNCHANGED <<fs, keywordIndex, initialized, result>>

\* initialize() is called: it returns at once when the index is initialized, and
\* otherwise runs to its first await, which follows the first call of indexFile
InitializeBody(c) ==
  /\ pc[c] \in {"idle", "done"}
  /\ IF initialized
     THEN /\ pc' = [pc EXCEPT ![c] = "done"]
          /\ UNCHANGED <<files, examplesByName, pos, ingestRuns>>
     ELSE /\ pc' = [pc EXCEPT ![c] = "running"]
          /\ ingestRuns' = ingestRuns + 1
          /\ IF IngestionCalls(fs) = <<>>
             THEN /\ pos' = [pos EXCEPT ![c] = 0]
                  /\ UNCHANGED <<files, examplesByName>>
             ELSE IngestOne(c, 1)
  /\ UNCHANGED <<fs, keywordIndex, initialized, result>>

\* a caller that holds the index calls initialize()
InitializeCall(c) == InitializeBody(c) /\ UNCHANGED hostVars

\* initialize() resumes after an await inside indexDirectory and runs to the next one
IndexNext(c) ==
  /\ pc[c] = "running"
  /\ pos[c] < Len(IngestionCalls(fs))
  /\ IngestOne(c, pos[c] + 1)
  /\ UNCHANGED <<fs, keywordIndex, initialized, pc, ingestRuns, result>>
  /\ UNCHANGED hostVars

\* initialize() resumes after its last await: buildKeywordIndex, initialized = true
InitializeFinish(c) ==
  /\ pc[c] = "running"
  /\ pos[c] = Len(IngestionCalls(fs))
  /\ keywordIndex' = buildKeywordIndex(files, keywordIndex)
  /\ initialized' = TRUE
  /\ pc' = [pc EXCEPT ![c] = "done"]
  /\ UNCHANGED <<fs, files, examplesByName, pos, ingestRuns, result>>
  /\ UNCHANGED hostVars

(* ------------------------------------------------------------------ *)
(* Patterns built at query time                                        *)
(* ------------------------------------------------------------------ *)

\* s.replace(/<from>/g, to) for a literal from: left to right, matches do not overlap
replaceAll(s, from, to) ==
  LET RECURSIVE go(_)
      go(i) ==
        IF i > Len(s) THEN <<>>
        ELSE IF OccursAt(s, from, i - 1) THEN to \o go(i + Len(from))
        ELSE <<s[i]>> \o go(i + 1)
  IN go(1)

\* The pattern source that matchesGlobs builds from a glob: three replacements in a
\* row, each applied to the output of the one before.
globPattern(glob) ==
  replaceAll(replaceAll(replaceAll(glob, <<"*","*">>, <<".","*">>), <<"*">>, <<"[","^","/","]","*">>), <<"?">>, <<".">>)

\* new RegExp(source), for the pattern syntax that the model's strings can hold:
\* `.` (any character but a line break), the class `[^/]`, `*` after an atom, an
\* unclosed `(` (a SyntaxError), and characters that stand for themselves.
\* [ok |-> FALSE] is a SyntaxError thrown by the constructor.
compilePattern(source) ==
  LET RECURSIVE go(_, _)
      go(i, atoms) ==
        IF i > Len(source) THEN [ok |-> TRUE, atoms |-> atoms]
        ELSE
          LET isClass == OccursAt(source, <<"[","^","/","]">>, i - 1)
              width == IF isClass THEN 4 ELSE 1
              kind == IF isClass THEN "notSlash"
                      ELSE IF source[i] = "." THEN "any" ELSE "char"
              starred == i + width <= Len(source) /\ source[i + width] = "*"
          IN IF source[i] \in {"(", "*", "["} /\ ~isClass
             THEN [ok |-> FALSE, atoms |-> <<>>]
             ELSE go(i + width + (IF starred THEN 1 ELSE 0),
                     Append(atoms, [kind |-> kind, ch |-> source[i], star |-> starred]))
  IN go(1, <<>>)

atomMatches(atom, c) ==
  CASE atom.kind = "any" -> c # "\n"
    [] atom.kind = "notSlash" -> c # "/"
    [] OTHER -> c = atom.ch

\* the compiled atoms match s from place p on (the match may end anywhere)
RECURSIVE atomsMatchAt(_, _, _, _)
atomsMatchAt(atoms, k, s, p) ==
  IF k > Len(atoms) THEN TRUE
  ELSE IF atoms[k].star
       THEN \/ atomsMatchAt(atoms, k + 1, s, p)
            \/ /\ p <= Len(s)
               /\ atomMatches(atoms[k], s[p])
               /\ atomsMatchAt(atoms, k, s, p + 1)
  ELSE /\ p <= Len(s)
       /\ atomMatches(atoms[k], s[p])
       /\ atomsMatchAt(atoms, k + 1, s, p + 1)

\* regex.test(s) for a pattern without anchors: a match may start anywhere
patternTest(atoms, s) == \E p \in 1..(Len(s) + 1) : atomsMatchAt(atoms, 1, s, p)

\* new RegExp(`\\b${term}\\b`).test(lineLower), for a term that compiles: every
\* atom of such a term matches exactly one character
termRegexTest(term, lineLower) ==
  LET atoms == compilePattern(term).atoms
  IN \E p \in 0..(Len(lineLower) - Len(term)) :
       /\ WordBoundary(lineLower, p)
       /\ \A k \in 1..Len(term) : atomMatches(atoms[k], lineLower[p + k])
       /\ WordBoundary(lineLower, p + Len(term))

(* ------------------------------------------------------------------ *)
(* search                                                              *)
(* ------------------------------------------------------------------ *)

\* a matchesScope that lets every classification through
matchesScope_Any(type, scope) == TRUE

\* matchesScope
matchesScope(type, scope) ==
  CASE scope = "docs" -> type = "doc"
    [] scope = "examples" -> type = "example"
    [] scope = "docs_and_examples" -> type = "doc" \/ type = "example"
    [] scope = "all" -> TRUE
    [] OTHER -> TRUE

\* matchesGlobs: [threw |-> TRUE] when a pattern does not compile, else the answer.
\* The loop returns at the first glob that matches, so a later bad glob is not reached.
matchesGlobs(relativePath, globs) ==
  LET RECURSIVE go(_)
      try(i, re) ==
        IF ~re.ok THEN [threw |-> TRUE, value |-> FALSE]
        ELSE IF patternTest(re.atoms, relativePath)
             THEN [threw |-> FALSE, value |-> TRUE]
        ELSE go(i + 1)
      go(i) ==
        IF i > Len(globs) THEN [threw |-> FALSE, value |-> FALSE]
        ELSE try(i, compilePattern(globPattern(globs[i])))
  IN go(1)

\* A score is the fraction num / den: the coverage bonus matchedTerms /
\* queryTerms.length * 10 need not be whole. Within one call of search every
\* score has the same den, the number of query terms.
\* b.score - a.score < 0, the comparator's "a goes first"
scoreGreater(a, b) == a.num * b.den > b.num * a.den

\* a sort by score that is not stable: of two results of one score the later goes first
sortByScore_Unstable(results) ==
  LET RECURSIVE insert(_, _)
      insert(sorted, r) ==
        IF sorted = <<>> THEN <<r>>
        ELSE IF ~scoreGreater(sorted[Len(sorted)].score, r.score)
             THEN Append(insert(SubSeq(sorted, 1, Len(sorted) - 1), r), sorted[Len(sorted)])
        ELSE Append(sorted, r)
      RECURSIVE go(_, _)
      go(i, sorted) ==
        IF i > Len(results) THEN sorted ELSE go(i + 1, insert(sorted, results[i]))
  IN go(1, <<>>)

\* results.sort((a, b) => b.score - a.score): a stable sort, highest score first
sortByScore(results) ==
  LET RECURSIVE insert(_, _)
      insert(sorted, r) ==
        IF sorted = <<>> THEN <<r>>
        ELSE IF scoreGreater(r.score, sorted[Len(sorted)].score)
             THEN Append(insert(SubSeq(sorted, 1, Len(sorted) - 1), r), sorted[Len(sorted)])
        ELSE Append(sorted, r)
      RECURSIVE go(_, _)
      go(i, sorted) ==
        IF i > Len(results) THEN sorted ELSE go(i + 1, insert(sorted, results[i]))
  IN go(1, <<>>)

\* array.slice(start, end) with JavaScript's treatment of negative and oversized places
slice(seq, start, end) ==
  LET n == Len(seq)
      clamp(k) == IF k < 0 THEN (IF n + k < 0 THEN 0 ELSE n + k) ELSE (IF k > n THEN n ELSE k)
  IN SubSeq(seq, clamp(start) + 1, clamp(end))

\* the term loop without the 20 points for a line that begins with `term:`
scoreTerms_NoFieldBoost(lineLower, queryTerms) ==
  LET RECURSIVE go(_, _, _)
      go(k, score, matchedTerms) ==
        IF k > Len(queryTerms)
        THEN [threw |-> FALSE, score |-> score, matchedTerms |-> matchedTerms]
        ELSE
          LET term == queryTerms[k]
          IN IF ~includes(lineLower, term) THEN go(k + 1, score, matchedTerms)
             ELSE IF ~compilePattern(term).ok
                  THEN [threw |-> TRUE, score |-> score, matchedTerms |-> matchedTerms]
             ELSE go(k + 1,
                     score + 10 + (IF termRegexTest(term, lineLower) THEN 5 ELSE 0),
                     matchedTerms + 1)
  IN go(1, 0, 0)

\* The term loop of findMatches on one line (lines 267-279): the points scored, the
\* number of matched terms, and whether building a term's pattern threw.
scoreTerms(lineLower, queryTerms) ==
  LET RECURSIVE go(_, _, _)
      go(k, score, matchedTerms) ==
        IF k > Len(queryTerms)
        THEN [threw |-> FALSE, score |-> score, matchedTerms |-> matchedTerms]
        ELSE
          LET term == queryTerms[k]
          IN IF ~includes(lineLower, term) THEN go(k + 1, score, matchedTerms)
             ELSE IF ~compilePattern(term).ok
                  THEN [threw |-> TRUE, score |-> score, matchedTerms |-> matchedTerms]
             ELSE go(k + 1,
                     score + 10
                       + (IF startsWith(lineLower, term \o <<":">>) THEN 20 ELSE 0)
                       + (IF termRegexTest(term, lineLower) THEN 5 ELSE 0),
                     matchedTerms + 1)
  IN go(1, 0, 0)

\* The title bonus of findMatches (lines 288-295)
titleBonus(file, queryTerms) ==
  IF ~HasTitle(file) THEN 0
  ELSE LET titleLower == toLowerCase(file.metadata["title"])
       IN 15 * Cardinality({k \in 1..Len(queryTerms) : includes(titleLower, queryTerms[k])})

\* a result whose window end is not held to the last line of the file
lineResult_Unclamped(file, i, terms, queryTerms) ==
  LET contextStart == IF i - 2 > 0 THEN i - 2 ELSE 0
      contextEnd == i + 5
  IN [ path |-> file.path,
       relativePath |-> file.relativePath,
       lineStart |-> contextStart + 1,
       lineEnd |-> contextEnd + 1,
       excerpt |-> join(slice(file.lines, contextStart, contextEnd + 1), "\n"),
       score |-> [ num |-> (terms.score + titleBonus(file, queryTerms)) * Len(queryTerms)
                             + terms.matchedTerms * 10,
                   den |-> Len(queryTerms) ],
       type |-> file.type,
       hitLine |-> i + 1 ]

\* The SearchResult that findMatches pushes for the line at 0-based index i.
\* hitLine (1-based) is not a field of SearchResult: it records which line scored.
lineResult(file, i, terms, queryTerms) ==
  LET contextStart == IF i - 2 > 0 THEN i - 2 ELSE 0
      contextEnd == IF Len(file.lines) - 1 < i + 5 THEN Len(file.lines) - 1 ELSE i + 5
  IN [ path |-> file.path,
       relativePath |-> file.relativePath,
       lineStart |-> contextStart + 1,
       lineEnd |-> contextEnd + 1,
       excerpt |-> join(slice(file.lines, contextStart, contextEnd + 1), "\n"),
       score |-> [ num |-> (terms.score + titleBonus(file, queryTerms)) * Len(queryTerms)
                             + terms.matchedTerms * 10,
                   den |-> Len(queryTerms) ],
       type |-> file.type,
       hitLine |-> i + 1 ]

\* The first loop of findMatches (lines 262-307): one result per line with a matched term
lineHits(file, queryTerms) ==
  LET RECURSIVE go(_, _)
      line(i, acc, terms) ==
        IF terms.threw THEN [threw |-> TRUE, results |-> <<>>]
        ELSE go(i + 1, IF terms.matchedTerms > 0
                       THEN Append(acc, lineResult(file, i, terms, queryTerms))
                       ELSE acc)
      go(i, acc) ==
        IF i >= Len(file.lines) THEN [threw |-> FALSE, results |-> acc]
        ELSE line(i, acc, scoreTerms(toLowerCase(file.lines[i + 1]), queryTerms))
  IN go(0, <<>>)

\* Math.floor(lineStart / 10) of the range key
rangeBucket(r) == r.lineStart \div 10

\* every hit is kept, whatever its range bucket
uniqueByRange_KeepAll(sorted) == sorted

\* The second loop of findMatches (lines 309-320): in score order, the first result
\* of each (relativePath, bucket) is kept
uniqueByRange(sorted) ==
  LET RECURSIVE go(_, _)
      go(i, kept) ==
        IF i > Len(sorted) THEN kept
        ELSE go(i + 1,
                IF \E j \in 1..Len(kept) :
                     /\ kept[j].relativePath = sorted[i].relativePath
                     /\ rangeBucket(kept[j]) = rangeBucket(sorted[i])
                THEN kept ELSE Append(kept, sorted[i]))
  IN go(1, <<>>)

\* findMatches
findMatches(file, queryTerms) ==
  LET unique(hits) ==
        IF hits.threw THEN hits
        ELSE [threw |-> FALSE, results |-> uniqueByRange(sortByScore(hits.results))]
  IN unique(lineHits(file, queryTerms))

DefaultMaxResults == 8

DefaultScope == "docs_and_examples"

\* options.x with its default: options is a function from the names given to their values
optionOr(options, name, default) ==
  IF name \in DOMAIN options THEN options[name] ELSE default

\* The file loop of search (lines 218-224): every candidate's matches, in table order
collectMatches(table, queryTerms, scope, options) ==
  LET RECURSIVE go(_, _)
      push(i, acc, found) ==
        IF found.threw THEN [threw |-> TRUE, results |-> <<>>]
        ELSE go(i + 1, acc \o found.results)
      candidate(i, acc, globbed) ==
        IF globbed.threw THEN [threw |-> TRUE, results |-> <<>>]
        ELSE IF ~globbed.value THEN go(i + 1, acc)
        ELSE push(i, acc, findMatches(table[i], queryTerms))
      go(i, acc) ==
        IF i > Len(table) THEN [threw |-> FALSE, results |-> acc]
        ELSE IF ~matchesScope(table[i].type, scope) THEN go(i + 1, acc)
        ELSE candidate(i, acc,
               IF "fileGlobs" \in DOMAIN options
               THEN matchesGlobs(table[i].relativePath, options["fileGlobs"])
               ELSE [threw |-> FALSE, value |-> TRUE])
  IN go(1, <<>>)

\* search: [threw |-> TRUE] when it raises, else the list it returns
search(table, query, options) ==
  LET maxResults == optionOr(options, "maxResults", DefaultMaxResults)
      scope == optionOr(options, "scope", DefaultScope)
      queryTerms == splitWhitespace(toLowerCase(query))
      top(collected) ==
        IF collected.threw THEN collected
        ELSE [ threw |-> FALSE,
               results |-> slice(sortByScore(collected.results), 0, maxResults) ]
  IN top(collectMatches(table, queryTerms, scope, options))

(* ------------------------------------------------------------------ *)
(* The other query operations                                          *)
(* ------------------------------------------------------------------ *)

\* files.get(relativePath): [found |-> FALSE] is undefined
filesGet(table, relativePath) ==
  LET at == {i \in 1..Len(table) : table[i].relativePath = relativePath}
  IN IF at = {} THEN [found |-> FALSE] ELSE [found |-> TRUE, file |-> table[Min(at)]]

\* getFile
getFile(table, relativePath) == filesGet(table, relativePath)

\* getExampleByName
getExampleByName(byName, name) ==
  IF name \in DOMAIN byName THEN [found |-> TRUE, file |-> byName[name]]
  ELSE [found |-> FALSE]

\* getFilesWithKeyword. A keyword's set is filled while buildKeywordIndex walks the
\* file table, so Array.from(paths) lists the paths in file-table order.
getFilesWithKeyword(table, index, keyword) ==
  LET key == toLowerCase(keyword)
      member(f) == f.relativePath \in index[key]
  IN IF key \notin DOMAIN index THEN <<>> ELSE SelectSeq(table, member)

\* getAllExamples
getAllExamples(table) ==
  LET isExample(f) == f.type = "example"
  IN SelectSeq(table, isExample)

\* getAllFiles
getAllFiles(table) == table

\* getSnippet that takes lineStart for an index counted from 0
getSnippet_ZeroBased(table, relativePath, lineStart, lineEnd) ==
  LET got == filesGet(table, relativePath)
      end == IF Len(got.file.lines) < lineEnd THEN Len(got.file.lines) ELSE lineEnd
  IN IF ~got.found THEN [isNull |-> TRUE]
     ELSE [isNull |-> FALSE, text |-> join(slice(got.file.lines, lineStart, end), "\n")]

\* getSnippet: [isNull |-> TRUE] is null
getSnippet(table, relativePath, lineStart, lineEnd) ==
  LET got == filesGet(table, relativePath)
      start == IF lineStart - 1 > 0 THEN lineStart - 1 ELSE 0
      end == IF Len(got.file.lines) < lineEnd THEN Len(got.file.lines) ELSE lineEnd
  IN IF ~got.found THEN [isNull |-> TRUE]
     ELSE [isNull |-> FALSE, text |-> join(slice(got.file.lines, start, end), "\n")]

\* createCitation: [isNull |-> TRUE] is null; `!excerpt` holds of null and of ''
createCitation(table, relativePath, lineStart, lineEnd, reason) ==
  LET excerpt == getSnippet(table, relativePath, lineStart, lineEnd)
  IN IF ~filesGet(table, relativePath).found THEN [isNull |-> TRUE]
     ELSE IF excerpt.isNull \/ excerpt.text = <<>> THEN [isNull |-> TRUE]
     ELSE [ isNull |-> FALSE,
            path |-> relativePath,
            lineStart |-> lineStart,
            lineEnd |-> lineEnd,
            excerpt |-> excerpt.text,
            reason |-> reason ]

\* getStats whose switch has no case for templates
getStats_NoTemplateCase(table, index) ==
  LET count(type) == Cardinality({i \in 1..Len(table) : table[i].type = type})
  IN [ totalFiles |-> Len(table),
       examples |-> count("example"),
       docs |-> count("doc"),
       templates |-> 0,
       keywords |-> Cardinality(DOMAIN index) ]

\* getStats
getStats(table, index) ==
  LET count(type) == Cardinality({i \in 1..Len(table) : table[i].type = type})
  IN [ totalFiles |-> Len(table),
       examples |-> count("example"),
       docs |-> count("doc"),
       templates |-> count("template"),
       keywords |-> Cardinality(DOMAIN index) ]

(* ------------------------------------------------------------------ *)
(* Calls of the query operations                                       *)
(* ------------------------------------------------------------------ *)

\* A query operation is synchronous and writes no field of the index: the call
\* computes the return value, which `result` holds until the caller takes it.
Returns(r) ==
  /\ result = NoResult
  /\ result' = r
  /\ UNCHANGED <<fs, files, examplesByName, keywordIndex, initialized, pc, pos, ingestRuns>>
  /\ UNCHANGED hostVars

Search(query, options) ==
  Returns([op |-> "search", query |-> query, options |-> options,
           value |-> search(files, query, options)])

GetFile(relativePath) ==
  Returns([op |-> "getFile", relativePath |-> relativePath,
           value |-> getFile(files, relativePath)])

GetExampleByName(name) ==
  Returns([op |-> "getExampleByName", name |-> name,
           value |-> getExampleByName(examplesByName, name)])

\* getFilesWithKeyword that enters an unknown keyword in the index with no paths
GetFilesWithKeyword_Creating(keyword) ==
  /\ result = NoResult
  /\ result' = [op |-> "getFilesWithKeyword", keyword |-> keyword,
                value |-> getFilesWithKeyword(files, keywordIndex, keyword)]
  /\ keywordIndex' = [k \in DOMAIN keywordIndex \cup {toLowerCase(keyword)} |->
                        IF k \in DOMAIN keywordIndex THEN keywordIndex[k] ELSE {}]
  /\ UNCHANGED <<fs, files, examplesByName, initialized, pc, pos, ingestRuns>>
  /\ UNCHANGED hostVars

GetFilesWithKeyword(keyword) ==
  Returns([op |-> "getFilesWithKeyword", keyword |-> keyword,
           value |-> getFilesWithKeyword(files, keywordIndex, keyword)])

GetAllExamples == Returns([op |-> "getAllExamples", value |-> getAllExamples(files)])

GetAllFiles == Returns([op |-> "getAllFiles", value |-> getAllFiles(files)])

GetSnippet(relativePath, lineStart, lineEnd) ==
  Returns([op |-> "getSnippet", relativePath |-> relativePath,
           lineStart |-> lineStart, lineEnd |-> lineEnd,
           value |-> getSnippet(files, relativePath, lineStart, lineEnd)])

CreateCitation(relativePath, lineStart, lineEnd, reason) ==
  Returns([op |-> "createCitation", relativePath |-> relativePath,
           lineStart |-> lineStart, lineEnd |-> lineEnd, reason |-> reason,
           value |-> createCitation(files, relativePath, lineStart, lineEnd, reason)])

GetStats == Returns([op |-> "getStats", value |-> getStats(files, keywordIndex)])

\* the caller takes the return value and goes on
TakeResult ==
  /\ result # NoResult
  /\ result' = NoResult
  /\ UNCHANGED <<fs, files, examplesByName, keywordIndex, initialized, pc, pos, ingestRuns>>
  /\ UNCHANGED hostVars

(* ------------------------------------------------------------------ *)
(* The index and its callers                                           *)
(* ------------------------------------------------------------------ *)

\* What the files of the model's file system hold
Content ==
  (File_ex_a :> <<"m","e","t","a","d","a","t","a",":","\n"," "," ","t","i","t","l","e",":"," ","I","d","\n","i","d",":"," ","|","\n"," "," ","a","n"," ","i","d">>)
  @@ (File_ex_n :> <<"i","d">>)
  @@ (File_ex_s_b :> <<"h","i","d","\n","s","h","o","w"," "," ","i","f"," ","i","d">>)
  @@ (File_dm_a :> <<"N","a","m","e",":"," ","x","\n","i","d",":"," ","y">>)
  @@ (File_tp_t :> <<"i","f"," ","i","d">>)

\* the directory that holds a file
dirname(p) ==
  LET slashes == {i \in 1..Len(p) : p[i] = "/"}
  IN SubSeq(p, 1, Max(slashes) - 1)

\* The file system in which the directories D exist, with every file of Content
\* below them, those of U unreadable
FileSystem(D, U) ==
  [ dirs |-> D \cup {basePath},
    files |-> [p \in {f \in DOMAIN Content : dirname(f) \in D} |->
                 [readable |-> p \notin U, content |-> Content[p]]] ]

\* Every combination of sub-roots that exist and files that cannot be read
FileSystems ==
  {FileSystem(D, U) :
     D \in {X \in SUBSET {examplesPath, SubDir, demoQuestionsPath, templatesPath} :
              SubDir \in X => examplesPath \in X},
     U \in SUBSET {File_ex_a, File_dm_a, File_tp_t}}

Queries == { <<"i","d">>, <<"I","D"," "," ","i","f">>, <<>> }

OptionSets ==
  { [o \in {} |-> 0],
    [scope |-> "all", maxResults |-> 2],
    [fileGlobs |-> << <<"*","*","/","*",".","y","m","l">> >>] }

Paths == { <<"e","x","/","a",".","y","m","l">>, <<"t","p","/","t",".","m","d">>, <<"z","z">> }

Init ==
  /\ fs \in FileSystems
  /\ IndexConstructed
  /\ pc = [c \in Callers |-> "idle"]
  /\ pos = [c \in Callers |-> 0]
  /\ ingestRuns = 0
  /\ result = NoResult
  /\ HostIdle

Next ==
  \/ \E c \in Callers : InitializeCall(c)
  \/ \E c \in Callers : IndexNext(c)
  \/ \E c \in Callers : InitializeFinish(c)
  \/ \E q \in Queries, o \in OptionSets : Search(q, o)
  \/ \E p \in Paths : GetFile(p)
  \/ \E n \in { <<"a">>, <<"b">>, <<"t">> } : GetExampleByName(n)
  \/ \E k \in { <<"I","D">>, <<"S","h","o","w"," ","I","f">>, <<"z","z">> } : GetFilesWithKeyword(k)
  \/ GetAllExamples
  \/ GetAllFiles
  \/ \E p \in Paths : GetSnippet(p, 2, 3)
  \/ \E p \in Paths, range \in { <<1, 2>>, <<5, 3>> } :
       CreateCitation(p, range[1], range[2], <<"w","h","y">>)
  \/ GetStats
  \/ TakeResult

Spec == Init /\ [][Next]_vars

(* ------------------------------------------------------------------ *)
(* The hosting process (index.ts)                                      *)
(* ------------------------------------------------------------------ *)

\* initializeIndex without the check of the root
rootMissing_Unchecked(fsys) == FALSE

\* !fs.existsSync(refPath) of initializeIndex
rootMissing(fsys) == ~existsSync(fsys, basePath)

\* initializeIndex, the corpus root is missing: process.exit(1)
HostRootMissing ==
  /\ hostPc = "start"
  /\ rootMissing(fs)
  /\ hostPc' = "exited"
  /\ exitCode' = 1
  /\ UNCHANGED <<fs, files, examplesByName, keywordIndex, initialized, pc, pos, ingestRuns,
                 result, mode, constructed, serving>>
  /\ UNCHANGED httpVars

\* initializeIndex: index = new DocassembleIndex(refPath); index.initialize() runs
\* to its first await
HostInitializeIndex ==
  /\ hostPc = "start"
  /\ ~rootMissing(fs)
  /\ constructed' = TRUE
  /\ hostPc' = "initializing"
  /\ InitializeBody("c1")
  /\ UNCHANGED <<mode, serving, exitCode>>
  /\ UNCHANGED httpVars

HostIndexNext == hostPc = "initializing" /\ IndexNext("c1")

HostInitializeFinish == hostPc = "initializing" /\ InitializeFinish("c1")

\* initializeIndex after `await index.initialize()`: the statistics are logged, the
\* resource and tools managers are built, and initializeIndex returns
HostIndexReady ==
  /\ hostPc = "initializing"
  /\ pc["c1"] = "done"
  /\ hostPc' = "ready"
  /\ UNCHANGED <<fs, files, examplesByName, keywordIndex, initialized, pc, pos, ingestRuns,
                 result, mode, constructed, serving, exitCode>>
  /\ UNCHANGED httpVars

\* a start-up that does not await initializeIndex
CanServe_NotAwaited == hostPc \in {"initializing", "ready"}

\* startHttpServer and startStdioServer go on only after `await initializeIndex()`
CanServe == hostPc = "ready"

\* startHttpServer: the routes are registered and app.listen(PORT) is called
HostListen ==
  /\ mode = "http"
  /\ CanServe
  /\ serving' = TRUE
  /\ hostPc' = "serving"
  /\ UNCHANGED <<fs, files, examplesByName, keywordIndex, initialized, pc, pos, ingestRuns,
                 result, mode, constructed, exitCode>>
  /\ UNCHANGED httpVars

\* startStdioServer: server.connect(transport)
HostConnect ==
  /\ mode = "stdio"
  /\ CanServe
  /\ serving' = TRUE
  /\ hostPc' = "serving"
  /\ UNCHANGED <<fs, files, examplesByName, keywordIndex, initialized, pc, pos, ingestRuns,
                 result, mode, constructed, exitCode>>
  /\ UNCHANGED httpVars

\* GET /mcp and GET /health answer with index.getStats()
HandleStats == serving /\ mode = "http" /\ GetStats

\* tools/call search_sources: ToolsManager.searchSources calls index.search
HandleToolsCall(query, options) == serving /\ Search(query, options)

\* resources/list: ResourceManager lists index.getAllExamples()
HandleResourcesList == serving /\ GetAllExamples

\* the response is sent
HandleDone == serving /\ TakeResult

\* the file system of a host whose corpus root does not exist
NoRoot == [dirs |-> {}, files |-> [p \in {} |-> 0]]

HostFileSystems ==
  {NoRoot}
    \cup {FileSystem(D, U) :
            D \in { {examplesPath, SubDir, demoQuestionsPath, templatesPath},
                    {demoQuestionsPath}, {} },
            U \in { {}, {File_ex_a} }}

HostInit ==
  /\ fs \in HostFileSystems
  /\ IndexConstructed
  /\ pc = [c \in Callers |-> "idle"]
  /\ pos = [c \in Callers |-> 0]
  /\ ingestRuns = 0
  /\ result = NoResult
  /\ mode \in {"http", "stdio"}
  /\ hostPc = "start"
  /\ constructed = FALSE
  /\ serving = FALSE
  /\ exitCode = -1
  /\ HttpIdle

HostNext ==
  \/ HostRootMissing
  \/ HostInitializeIndex
  \/ HostIndexNext
  \/ HostInitializeFinish
  \/ HostIndexReady
  \/ HostListen
  \/ HostConnect
  \/ HandleStats
  \/ \E q \in Queries, o \in OptionSets : HandleToolsCall(q, o)
  \/ HandleResourcesList
  \/ HandleDone

HostSpec == HostInit /\ [][HostNext]_vars

(* ------------------------------------------------------------------ *)
(* Searches over fixed corpora                                         *)
(* ------------------------------------------------------------------ *)

\* The file system with every directory and the given readable files
Corpus(content) ==
  [ dirs |-> {basePath, examplesPath, SubDir, demoQuestionsPath, templatesPath},
    files |-> [p \in DOMAIN content |-> [readable |-> TRUE, content |-> content[p]]] ]

\* a title, a field line, words inside other words, letter case
CorpusFields ==
  Corpus((File_ex_a :> <<"m","e","t","a","d","a","t","a",":","\n"," "," ","t","i","t","l","e",":"," ","I","d","\n","i","d",":"," ","|","\n"," "," ","a","n"," ","i","d">>)
         @@ (File_ex_n :> <<"i","d">>)
         @@ (File_ex_s_b :> <<"h","i","d","\n","i","f"," ","i","d","\n","n","a","m","e",":"," ","i","d"," ","i","f">>)
         @@ (File_dm_a :> <<"i","d",":"," ","y","\n","I","D">>)
         @@ (File_tp_t :> <<"i","d",":"," ","t">>))

\* equal scores in one file and across files; a file long enough for two range buckets
CorpusTies ==
  Corpus((File_ex_a :> <<"i","d","\n","h","i","d","\n","\n","\n","\n","\n","\n","\n","\n","\n","\n","i","d">>)
         @@ (File_ex_s_b :> <<"i","d",":"," ","z">>)
         @@ (File_dm_a :> <<"i","d">>)
         @@ (File_tp_t :> <<"a","n"," ","i","d">>))

\* terms that hold characters with a meaning in a pattern
CorpusPunctuation ==
  Corpus((File_ex_a :> <<"m","e","t","a","d","a","t","a",":","\n"," "," ","t","i","t","l","e",":"," ",".","a","\n","b",".","a">>)
         @@ (File_ex_s_b :> <<"x",".","a">>)
         @@ (File_dm_a :> <<".","a",":"," ","|">>)
         @@ (File_tp_t :> <<"a","(">>))

\* the term in the title of one file, and at the head of a line of an untitled one
CorpusTitles ==
  Corpus((File_ex_a :> <<"m","e","t","a","d","a","t","a",":","\n"," "," ","t","i","t","l","e",":"," ","A","n"," ","i","d","\n","-","-","-","\n","h","e","r","e"," ","a","n"," ","i","d">>)
         @@ (File_dm_a :> <<"i","d",":"," ","|","\n"," "," ","x">>)
         @@ (File_tp_t :> <<"i","d">>))

\* a file of fourteen lines, the last one empty: hits on lines 4, 11 and 13
CorpusLong ==
  Corpus((File_ex_a :> <<"\n","\n","\n","i","d","\n","\n","\n","\n","\n","\n","\n","i","f",":"," ","x","\n","\n","h","i","d","\n">>)
         @@ (File_dm_a :> <<"i","d">>))

SearchCorpora == {CorpusFields, CorpusTies, CorpusPunctuation, CorpusTitles, CorpusLong}

SearchQueries ==
  { <<"i","d">>, <<"I","D">>, <<"i","d"," ","i","f">>, <<"i","d"," ","i","d">>, <<"h","i","d"," ","z","z">>, <<"z","z">>, <<>>, <<" ","	">>, <<".","a">>, <<".">>, <<"a","(">>, <<"t","i","t","l","e">> }

\* the largest maxResults a call of the model asks for
MaxResultsAsked == 3

Scopes == {"docs", "examples", "docs_and_examples", "all"}

SearchGlobLists == { << <<"*","*","/","*",".","y","m","l">> >>, << <<"z","z">>, <<"e","x","/","*">> >>, <<>>, << <<"(">> >> }

\* an options object: each of maxResults, scope and fileGlobs given or left out
SearchOptions ==
  LET opt(name, values) == {[o \in {} |-> 0]} \cup {name :> v : v \in values}
  IN {m @@ s @@ g : m \in opt("maxResults", 1..MaxResultsAsked),
                    s \in opt("scope", Scopes),
                    g \in opt("fileGlobs", SearchGlobLists)}

SearchInit ==
  /\ fs \in SearchCorpora
  /\ IndexConstructed
  /\ pc = [c \in Callers |-> "idle"]
  /\ pos = [c \in Callers |-> 0]
  /\ ingestRuns = 0
  /\ result = NoResult
  /\ HostIdle

\* search is synchronous: its caller has the list in hand before any continuation
\* of initialize runs, so a step of initialize finds no call of search under way
SearchNext ==
  \/ result = NoResult /\ InitializeCall("c1")
  \/ result = NoResult /\ IndexNext("c1")
  \/ result = NoResult /\ InitializeFinish("c1")
  \/ \E q \in SearchQueries, o \in SearchOptions : Search(q, o)
  \/ TakeResult

SearchSpec == SearchInit /\ [][SearchNext]_vars

(* ------------------------------------------------------------------ *)
(* matchesGlobs over bounded paths and globs                           *)
(* ------------------------------------------------------------------ *)

\* the longest path and the longest glob drawn from the alphabets
MaxPathLen == 3

MaxGlobLen == 3

PathAlphabet == {"a", "/", "."}

GlobAlphabet == {"a", "*", "?", "/", "."}

Strings(alphabet, maxLen) == UNION {[1..n -> alphabet] : n \in 1..maxLen}

\* every short path, and paths of files one, two and three directories deep
GlobPaths ==
  Strings(PathAlphabet, MaxPathLen)
    \cup { <<"e","x","/","a",".","y","m","l">>, <<"e","x","/","s","/","b",".","y","a","m","l">>, <<"e","x","/","s","/","t","/","b",".","y","a","m","l">> }

\* every short glob, and globs of the usual shapes
GlobPatterns ==
  Strings(GlobAlphabet, MaxGlobLen)
    \cup { <<"*","*","/","*",".","y","m","l">>, <<"e","x","/","*","*","/","b",".","y","a","m","l">>, <<"e","x","/","*",".","y","?","l">> }

GlobLists ==
  {<<g>> : g \in GlobPatterns}
    \cup { <<>>, << <<"a">>, <<"*","*">> >>, << <<"e","x","/","*",".","y","?","l">>, <<"e","x","/","*","*","/","b",".","y","a","m","l">> >> }

\* a call of matchesGlobs, as search makes for a file in scope
MatchesGlobs(relativePath, globs) ==
  Returns([op |-> "matchesGlobs", relativePath |-> relativePath, globs |-> globs,
           value |-> matchesGlobs(relativePath, globs)])

GlobInit ==
  /\ fs = CorpusFields
  /\ IndexConstructed
  /\ pc = [c \in Callers |-> "idle"]
  /\ pos = [c \in Callers |-> 0]
  /\ ingestRuns = 0
  /\ result = NoResult
  /\ HostIdle

GlobNext ==
  \/ \E p \in GlobPaths, g \in GlobLists : MatchesGlobs(p, g)
  \/ TakeResult

GlobSpec == GlobInit /\ [][GlobNext]_vars

(* ------------------------------------------------------------------ *)
(* Properties of initialize and of the hosting process                 *)
(* ------------------------------------------------------------------ *)

\* C1: once initialize has completed, a later call of initialize by any caller
\* returns at once: it starts no ingestion pass and no keyword-index build, and the
\* file table, the by-name table and the keyword index are the same after it.
C1_InitializeOnce ==
  [][\A c \in Callers :
       (initialized /\ pc[c] \in {"idle", "done"} /\ pc'[c] # pc[c])
         => /\ pc'[c] = "done"
            /\ ingestRuns' = ingestRuns
            /\ tables' = tables
            /\ initialized']_vars

\* a second caller called initialize after the first one's call had completed
C1_Witness ==
  /\ initialized
  /\ pc["c1"] = "done"
  /\ pc["c2"] = "done"
  /\ ingestRuns = 1
  /\ Len(files) = 4
  /\ DOMAIN keywordIndex # {}

ReadOperations ==
  {"search", "getFile", "getExampleByName", "getFilesWithKeyword", "getAllExamples",
   "getAllFiles", "getSnippet", "createCitation", "getStats"}

\* C2: after initialize has completed, each call of search, getFile,
\* getExampleByName, getFilesWithKeyword, getAllExamples, getAllFiles, getSnippet,
\* createCitation and getStats leaves the file table, the by-name table and the
\* keyword index unchanged (and so does every sequence of such calls).
C2_ReadsLeaveTables ==
  [][(initialized /\ result' # result /\ result'.op \in ReadOperations)
       => tables' = tables]_vars

\* a citation was made from a filled index
C2_Witness ==
  /\ initialized
  /\ result.op = "createCitation"
  /\ ~result.value.isNull
  /\ Len(files) = 4
  /\ DOMAIN keywordIndex # {}

\* C3: in the HTTP and in the stdio start-up path the process serves, and a request
\* is handled, only after initialize has run the whole pipeline: every file
\* ingested, the keyword index built, the call completed.
C3_ServesAfterInitialize ==
  (serving \/ result # NoResult)
    => /\ initialized
       /\ pc["c1"] = "done"
       /\ pos["c1"] = Len(IngestionCalls(fs))
       /\ keywordIndex = buildKeywordIndex(files, [k \in {} |-> {}])
       /\ hostPc = "serving"

\* a search was answered over stdio from a filled index
C3_Witness ==
  /\ serving
  /\ mode = "stdio"
  /\ result.op = "search"
  /\ ~result.value.threw
  /\ result.value.results # <<>>

\* the file system holds no directory at the primary corpus root
PrimaryRootAbsent == basePath \notin fs.dirs

\* C4: when the corpus root does not exist the process exits with status 1 before
\* an index is constructed; it never serves and never handles a request.
C4_MissingRootExits ==
  PrimaryRootAbsent
    => /\ ~constructed
       /\ ~serving
       /\ ~initialized
       /\ result = NoResult
       /\ files = <<>>
       /\ \/ hostPc = "start" /\ exitCode = -1
          \/ hostPc = "exited" /\ exitCode = 1

\* the process has exited for a missing root
C4_Witness == PrimaryRootAbsent /\ hostPc = "exited" /\ exitCode = 1

\* the extensions that ingestion accepts
AcceptedExtensions == { <<".","y","m","l">>, <<".","y","a","m","l">>, <<".","m","d">> }

SubRoots == {examplesPath, demoQuestionsPath, templatesPath}

\* the files initialize has to register: readable, of an accepted extension, at
\* any depth below a sub-root that exists
FilesToRegister(fsys) ==
  {p \in DOMAIN fsys.files :
     /\ fsys.files[p].readable
     /\ \E e \in AcceptedExtensions : endsWith(p, e)
     /\ \E root \in SubRoots \cap fsys.dirs : startsWith(p, root \o <<"/">>)}

\* C5: whatever sub-roots are missing and whatever files cannot be read,
\* initialize completes with the file table holding exactly the readable files of
\* an accepted extension below the sub-roots that exist; a file that cannot be
\* read is in neither table.
C5_IngestionTolerant ==
  initialized
    => /\ {files[i].path : i \in 1..Len(files)} = FilesToRegister(fs)
       /\ \A i, j \in 1..Len(files) : files[i].path = files[j].path => i = j
       /\ \A p \in DOMAIN fs.files :
            ~fs.files[p].readable
              => /\ \A i \in 1..Len(files) : files[i].path # p
                 /\ \A n \in DOMAIN examplesByName : examplesByName[n].path # p

\* a sub-root is missing, a file cannot be read, and its sibling is registered
C5_Witness ==
  /\ initialized
  /\ templatesPath \notin fs.dirs
  /\ File_ex_a \in DOMAIN fs.files
  /\ ~fs.files[File_ex_a].readable
  /\ {files[i].path : i \in 1..Len(files)} = {File_ex_s_b, File_dm_a}

(* ------------------------------------------------------------------ *)
(* Properties of search                                                *)
(* ------------------------------------------------------------------ *)

\* a call of search has returned a list
SearchReturned == result.op = "search" /\ ~result.value.threw

\* the query terms of a call
TermsOf(query) == splitWhitespace(toLowerCase(query))

\* the text, lower-cased, of the line a result was scored on
HitLineLower(table, r) ==
  toLowerCase(filesGet(table, r.relativePath).file.lines[r.hitLine])

SameScore(a, b) == a.num * b.den = b.num * a.den

\* the place of a file in the file table
FilePlace(table, relativePath) ==
  Min({i \in 1..Len(table) : table[i].relativePath = relativePath})

\* hit a is met before hit b: in an earlier file, or on an earlier line of one file
EncounteredBefore(table, a, b) ==
  \/ FilePlace(table, a.relativePath) < FilePlace(table, b.relativePath)
  \/ a.relativePath = b.relativePath /\ a.hitLine < b.hitLine

\* `returned` is the top maxResults of the deduplicated `hits`
TopResults(table, returned, hits, maxResults) ==
  /\ Len(returned) <= maxResults
  /\ Len(returned) = Min({maxResults, Len(hits)})
  /\ SeqToSet(returned) \subseteq SeqToSet(hits)
  /\ \A i, j \in 1..Len(returned) :
       i < j => /\ ~scoreGreater(returned[j].score, returned[i].score)
                /\ SameScore(returned[i].score, returned[j].score)
                     => EncounteredBefore(table, returned[i], returned[j])
  /\ \A h \in SeqToSet(hits) \ SeqToSet(returned) :
       \A i \in 1..Len(returned) :
         /\ ~scoreGreater(h.score, returned[i].score)
         /\ SameScore(h.score, returned[i].score)
              => EncounteredBefore(table, returned[i], h)

\* C6: search returns the top maxResults results: at most maxResults of them, in
\* order of non-increasing score, every deduplicated hit that is left out scoring
\* no more than the lowest one returned, and hits of equal score in the order of
\* their files in the file table and then of their lines.
C6_TopResults ==
  SearchReturned
    => TopResults(files, result.value.results,
                  collectMatches(files, TermsOf(result.query),
                                 optionOr(result.options, "scope", DefaultScope),
                                 result.options).results,
                  optionOr(result.options, "maxResults", DefaultMaxResults))

\* a list cut to maxResults that holds two hits of one file with equal scores,
\* and leaves out a hit of a later file with that score
C6_Witness ==
  /\ SearchReturned
  /\ "maxResults" \in DOMAIN result.options
  /\ Len(result.value.results) = result.options["maxResults"]
  /\ \E i, j \in 1..Len(result.value.results) :
       /\ i < j
       /\ result.value.results[i].relativePath = result.value.results[j].relativePath
       /\ SameScore(result.value.results[i].score, result.value.results[j].score)
  /\ Len(collectMatches(files, TermsOf(result.query), "all", result.options).results) = 5
  /\ "scope" \in DOMAIN result.options
  /\ result.options["scope"] = "all"

\* the classifications a scope lets through
AllowedTypes(scope) ==
  CASE scope = "docs" -> {"doc"}
    [] scope = "examples" -> {"example"}
    [] scope = "docs_and_examples" -> {"doc", "example"}
    [] scope = "all" -> {"doc", "example", "template", "other"}

\* C7: every result of search has a classification that the requested scope
\* allows; a call that names no scope is answered as for docs_and_examples, so it
\* returns no template.
C7_ScopeRespected ==
  SearchReturned
    => \A i \in 1..Len(result.value.results) :
         result.value.results[i].type
           \in (IF "scope" \in DOMAIN result.options
                THEN AllowedTypes(result.options["scope"])
                ELSE {"doc", "example"})

\* a call without a scope returned results while a template holds the query too
C7_Witness ==
  /\ SearchReturned
  /\ DOMAIN result.options = {}
  /\ result.value.results # <<>>
  /\ \E i \in 1..Len(files) :
       /\ files[i].type = "template"
       /\ includes(toLowerCase(files[i].content), toLowerCase(result.query))

\* A glob read as the interface states it: `**` any characters, `*` any characters
\* but the separator, `?` one character, anything else itself
globTokens(glob) ==
  LET RECURSIVE go(_)
      go(i) ==
        IF i > Len(glob) THEN <<>>
        ELSE IF OccursAt(glob, <<"*","*">>, i - 1) THEN <<"**">> \o go(i + 2)
        ELSE <<glob[i]>> \o go(i + 1)
  IN go(1)

\* the tokens from the k-th on match s from place p on; `whole`: up to its end
RECURSIVE GlobMatchesFrom(_, _, _, _, _)
GlobMatchesFrom(tokens, k, s, p, whole) ==
  IF k > Len(tokens) THEN (whole => p = Len(s) + 1)
  ELSE CASE tokens[k] = "**" ->
              \E q \in p..(Len(s) + 1) : GlobMatchesFrom(tokens, k + 1, s, q, whole)
         [] tokens[k] = "*" ->
              \E q \in p..(Len(s) + 1) :
                /\ \A x \in p..(q - 1) : s[x] # "/"
                /\ GlobMatchesFrom(tokens, k + 1, s, q, whole)
         [] tokens[k] = "?" ->
              p <= Len(s) /\ GlobMatchesFrom(tokens, k + 1, s, p + 1, whole)
         [] OTHER ->
              /\ p <= Len(s)
              /\ s[p] = tokens[k]
              /\ GlobMatchesFrom(tokens, k + 1, s, p + 1, whole)

\* the glob matches the whole path
GlobMatchesWhole(glob, path) == GlobMatchesFrom(globTokens(glob), 1, path, 1, TRUE)

\* the glob matches some part of the path
GlobMatchesWithin(glob, path) ==
  \E p \in 1..(Len(path) + 1) : GlobMatchesFrom(globTokens(glob), 1, path, p, FALSE)

\* C8: a path passes matchesGlobs exactly when it matches one of the globs, with
\* `**` any characters, `*` any characters but '/', `?` one character. The
\* statement is the weakest one: a path the code passes matches a glob at least in
\* part, and a path that matches a glob as a whole is passed.
C8_GlobMeaning ==
  (result.op = "matchesGlobs" /\ ~result.value.threw)
    => /\ result.value.value
            => \E i \in 1..Len(result.globs) :
                 GlobMatchesWithin(result.globs[i], result.relativePath)
       /\ (\E i \in 1..Len(result.globs) :
             GlobMatchesWhole(result.globs[i], result.relativePath))
            => result.value.value

\* the term stands in the line as a whole word
WholeWord(lineLower, term) ==
  \E p \in 0..(Len(lineLower) - Len(term)) :
    /\ OccursAt(lineLower, term, p)
    /\ WordBoundary(lineLower, p)
    /\ WordBoundary(lineLower, p + Len(term))

\* The score of a line as the scoring rule states it, as the fraction num / den
StatedScore(file, lineLower, queryTerms) ==
  LET entries == 1..Len(queryTerms)
      matched == {k \in entries : includes(lineLower, queryTerms[k])}
      field == {k \in matched : startsWith(lineLower, queryTerms[k] \o <<":">>)}
      word == {k \in matched : WholeWord(lineLower, queryTerms[k])}
      titled == IF HasTitle(file)
                THEN {k \in entries :
                        includes(toLowerCase(file.metadata["title"]), queryTerms[k])}
                ELSE {}
  IN [ num |-> (10 * Cardinality(matched) + 20 * Cardinality(field)
                  + 5 * Cardinality(word) + 15 * Cardinality(titled)) * Len(queryTerms)
               + 10 * Cardinality(matched),
       den |-> Len(queryTerms) ]

\* C9: a result of search is scored on a line that holds a query term, and its
\* score is, for each entry of the term list that the line holds, 10, plus 20 when
\* the line begins with the term and a colon, plus 5 when the term stands as a
\* whole word; plus matched entries / entries x 10; plus 15 for each entry that
\* the lower-cased title holds.
C9_StatedScore ==
  SearchReturned
    => \A i \in 1..Len(result.value.results) :
         /\ \E k \in 1..Len(TermsOf(result.query)) :
              includes(HitLineLower(files, result.value.results[i]), TermsOf(result.query)[k])
         /\ result.value.results[i].score
              = StatedScore(filesGet(files, result.value.results[i].relativePath).file,
                            HitLineLower(files, result.value.results[i]),
                            TermsOf(result.query))

\* a call of search with the one term t and scope examples has returned
SingleTermExamples ==
  /\ SearchReturned
  /\ Len(TermsOf(result.query)) = 1
  /\ "scope" \in DOMAIN result.options
  /\ result.options["scope"] = "examples"

\* In the returned list, a hit on a line that begins with `t:` stands before, and
\* scores more than, every hit of another file on a line that holds t further in
FieldLineFirst(table, returned, t) ==
  \A i, j \in 1..Len(returned) :
    ( /\ returned[i].relativePath # returned[j].relativePath
      /\ startsWith(HitLineLower(table, returned[i]), t \o <<":">>)
      /\ ~startsWith(HitLineLower(table, returned[j]), t) )
      => /\ i < j
         /\ scoreGreater(returned[i].score, returned[j].score)

CorpusCitations ==
  Corpus((File_ex_a :> <<"a","\n","\n","\n","b">>)
         @@ (File_dm_a :> <<>>)
         @@ (File_tp_t :> <<"x","\n">>))

\* the line numbers asked for run from -LinesBelow to MaxLineAsked
LinesBelow == 2

MaxLineAsked == 5

LinesAsked == (0 - LinesBelow)..MaxLineAsked

CitationPaths == { <<"e","x","/","a",".","y","m","l">>, <<"d","m","/","a",".","y","m","l">>, <<"t","p","/","t",".","m","d">>, <<"n","o","n","e","x","i","s","t","e","n","t","/","f","i","l","e",".","y","m","l">> }

\* `reason` left out of a call
Undefined == "undefined"

Reasons == { Undefined, <<"w","h","y">> }

CitationInit ==
  /\ fs = CorpusCitations
  /\ IndexConstructed
  /\ pc = [c \in Callers |-> "idle"]
  /\ pos = [c \in Callers |-> 0]
  /\ ingestRuns = 0
  /\ result = NoResult
  /\ HostIdle

\* createCitation and getSnippet are synchronous, like search
CitationNext ==
  \/ result = NoResult /\ InitializeCall("c1")
  \/ result = NoResult /\ IndexNext("c1")
  \/ result = NoResult /\ InitializeFinish("c1")
  \/ \E p \in CitationPaths, lineStart \in LinesAsked, lineEnd \in LinesAsked, reason \in Reasons :
       CreateCitation(p, lineStart, lineEnd, reason)
  \/ \E p \in CitationPaths, lineStart \in LinesAsked, lineEnd \in LinesAsked :
       GetSnippet(p, lineStart, lineEnd)
  \/ TakeResult

CitationSpec == CitationInit /\ [][CitationNext]_vars

(* ------------------------------------------------------------------ *)
(* Properties of result windows and of deduplication                   *)
(* ------------------------------------------------------------------ *)

\* lines a..b of a file (1-based, inclusive) joined by newlines
RECURSIVE LinesJoined(_, _, _)
LinesJoined(lines, a, b) ==
  IF a > b THEN <<>>
  ELSE IF a = b THEN lines[a]
  ELSE lines[a] \o <<"\n">> \o LinesJoined(lines, a + 1, b)

\* result r is the window of a hit on a line of `file` that holds a query term
WindowOfHit(file, r, queryTerms) ==
  LET n == Len(file.lines)
      h == r.hitLine
  IN /\ h \in 1..n
     /\ \E k \in 1..Len(queryTerms) : includes(toLowerCase(file.lines[h]), queryTerms[k])
     /\ r.lineStart = (IF h - 2 < 1 THEN 1 ELSE h - 2)
     /\ r.lineEnd = (IF h + 5 > n THEN n ELSE h + 5)
     /\ 1 <= r.lineStart /\ r.lineStart <= h /\ h <= r.lineEnd /\ r.lineEnd <= n
     /\ r.excerpt = LinesJoined(file.lines, r.lineStart, r.lineEnd)
     /\ r.path = file.path
     /\ r.relativePath = file.relativePath
     /\ r.type = file.type

\* C11: a search result for a hit on line h of a file of n lines has
\* lineStart = max(1, h - 2) and lineEnd = min(n, h + 5), so that
\* 1 <= lineStart <= h <= lineEnd <= n; its excerpt is the file's lines
\* lineStart..lineEnd joined by newlines; path and classification are the file's.
C11_WindowBounds ==
  SearchReturned
    => \A i \in 1..Len(result.value.results) :
         /\ filesGet(files, result.value.results[i].relativePath).found
         /\ WindowOfHit(filesGet(files, result.value.results[i].relativePath).file,
                        result.value.results[i], TermsOf(result.query))

\* a returned window that neither end of the file cuts, and one that both ends cut
C11_Witness ==
  /\ SearchReturned
  /\ \E i \in 1..Len(result.value.results) :
       /\ result.value.results[i].lineStart = result.value.results[i].hitLine - 2
       /\ result.value.results[i].lineStart > 1
       /\ result.value.results[i].lineEnd = result.value.results[i].hitLine + 5
       /\ result.value.results[i].lineEnd
            < Len(filesGet(files, result.value.results[i].relativePath).file.lines)
  /\ \E i \in 1..Len(result.value.results) :
       /\ result.value.results[i].lineStart = 1
       /\ result.value.results[i].hitLine = 1
       /\ result.value.results[i].lineEnd = 1

\* the range bucket of a window: the tens of its first line
BucketOf(r) == r.lineStart \div 10

\* the files of the table that the scope and the globs of a call let through
CandidateFiles(table, options) ==
  { i \in 1..Len(table) :
      /\ table[i].type \in AllowedTypes(optionOr(options, "scope", DefaultScope))
      /\ "fileGlobs" \in DOMAIN options
           => matchesGlobs(table[i].relativePath, options["fileGlobs"]).value }

\* the (file, bucket) pairs in which some line of a candidate file holds a query term
HitBuckets(table, options, queryTerms) ==
  UNION { { <<table[i].relativePath, BucketOf(h)>> :
              h \in SeqToSet(lineHits(table[i], queryTerms).results) } :
          i \in CandidateFiles(table, options) }

\* r stands for its bucket: no hit of its file in that bucket scores more, and none
\* with its score is on an earlier line
BestOfBucket(file, r, queryTerms) ==
  \A h \in SeqToSet(lineHits(file, queryTerms).results) :
    BucketOf(h) = BucketOf(r)
      => /\ ~scoreGreater(h.score, r.score)
         /\ SameScore(h.score, r.score) => r.hitLine <= h.hitLine

\* C12: no two results of search share a (relative path, floor(lineStart / 10))
\* bucket; the result of a bucket is the highest-scoring hit of its file in that
\* bucket, the one on the earliest line when scores tie; and every bucket with a hit
\* has its own result as far as maxResults allows.
C12_OnePerBucket ==
  SearchReturned
    => /\ \A i, j \in 1..Len(result.value.results) :
            (/\ result.value.results[i].relativePath = result.value.results[j].relativePath
             /\ BucketOf(result.value.results[i]) = BucketOf(result.value.results[j]))
              => i = j
       /\ \A i \in 1..Len(result.value.results) :
            BestOfBucket(filesGet(files, result.value.results[i].relativePath).file,
                         result.value.results[i], TermsOf(result.query))
       /\ Len(result.value.results)
            = Min({ optionOr(result.options, "maxResults", DefaultMaxResults),
                    Cardinality(HitBuckets(files, result.options, TermsOf(result.query))) })

\* one file gives two results, in different buckets, and one of them stands for a
\* bucket in which an earlier line of the file scored less and was dropped
C12_Witness ==
  /\ SearchReturned
  /\ \E i, j \in 1..Len(result.value.results) :
       /\ result.value.results[i].relativePath = result.value.results[j].relativePath
       /\ BucketOf(result.value.results[i]) # BucketOf(result.value.results[j])
       /\ \E h \in SeqToSet(lineHits(filesGet(files, result.value.results[i].relativePath).file,
                                     TermsOf(result.query)).results) :
            /\ BucketOf(h) = BucketOf(result.value.results[i])
            /\ h.hitLine < result.value.results[i].hitLine
            /\ scoreGreater(result.value.results[i].score, h.score)

\* a result won its bucket on a tie of scores by being on the earlier line
C12_WitnessTie ==
  /\ SearchReturned
  /\ \E i \in 1..Len(result.value.results) :
       \E h \in SeqToSet(lineHits(filesGet(files, result.value.results[i].relativePath).file,
                                  TermsOf(result.query)).results) :
         /\ BucketOf(h) = BucketOf(result.value.results[i])
         /\ h.hitLine > result.value.results[i].hitLine
         /\ SameScore(result.value.results[i].score, h.score)

(* ------------------------------------------------------------------ *)
(* Searches that find nothing                                          *)
(* ------------------------------------------------------------------ *)

\* no line of a file that the scope lets through holds a term of the query
NoTermInScope(table, options, queryTerms) ==
  \A i \in 1..Len(table) :
    table[i].type \in AllowedTypes(optionOr(options, "scope", DefaultScope))
      => \A n \in 1..Len(table[i].lines), k \in 1..Len(queryTerms) :
           ~includes(toLowerCase(table[i].lines[n]), queryTerms[k])

\* every glob of the call's list, if it has one, makes a pattern that compiles
GlobsCompile(options) ==
  "fileGlobs" \in DOMAIN options
    => \A g \in 1..Len(options["fileGlobs"]) :
         compilePattern(globPattern(options["fileGlobs"][g])).ok

\* C13: for every corpus, scope and glob list, a search whose query is empty or all
\* whitespace, or none of whose terms occurs in a line of a file in scope, returns
\* an empty list and raises no error.
C13_NothingFound ==
  (/\ result.op = "search"
   /\ \/ TermsOf(result.query) = <<>>
      \/ NoTermInScope(files, result.options, TermsOf(result.query)))
    => /\ ~result.value.threw
       /\ result.value.results = <<>>

\* the same, for the calls whose globs all compile, and for the calls whose scope and
\* globs let no file through
C13_WhenGlobsCompile ==
  (/\ result.op = "search"
   /\ GlobsCompile(result.options)
   /\ \/ TermsOf(result.query) = <<>>
      \/ NoTermInScope(files, result.options, TermsOf(result.query))
      \/ CandidateFiles(files, result.options) = {})
    => /\ ~result.value.threw
       /\ result.value.results = <<>>

(* ------------------------------------------------------------------ *)
(* Properties of citations                                             *)
(* ------------------------------------------------------------------ *)

\* a call of createCitation has returned
CitationReturned == result.op = "createCitation"

\* the number of lines of the file at a path of the table
LineCount(table, relativePath) == Len(filesGet(table, relativePath).file.lines)

\* the request of a call cannot be met: no such file, a start after the end, or a
\* span that begins after the last line
RequestFails(table, r) ==
  \/ ~filesGet(table, r.relativePath).found
  \/ r.lineStart > r.lineEnd
  \/ r.lineStart > LineCount(table, r.relativePath)

\* C14: createCitation returns null, and does not throw, when the path is not in
\* the file table, when lineStart is after lineEnd, and when the whole requested
\* span lies beyond the end of the file.
C14_FailureValue ==
  (CitationReturned /\ RequestFails(files, result)) => result.value.isNull

\* the same for the calls whose lineEnd is not negative
C14_WhenEndNotNegative ==
  (CitationReturned /\ result.lineEnd >= 0 /\ RequestFails(files, result))
    => result.value.isNull

\* C15: every citation that createCitation returns has 1 <= lineStart <= lineEnd
\* <= number of lines of the file at its path, and its excerpt is that file's lines
\* lineStart..lineEnd joined by newlines, also when the request went past the bounds
\* of the file.
C15_SelfConsistent ==
  (CitationReturned /\ ~result.value.isNull)
    => /\ filesGet(files, result.value.path).found
       /\ 1 <= result.value.lineStart
       /\ result.value.lineStart <= result.value.lineEnd
       /\ result.value.lineEnd <= LineCount(files, result.value.path)
       /\ result.value.excerpt
            = LinesJoined(filesGet(files, result.value.path).file.lines,
                          result.value.lineStart, result.value.lineEnd)

\* the excerpt of a returned citation is the requested span cut to the file, for the
\* calls whose lineEnd is not negative; the line numbers are the requested ones
C15_ExcerptOfClampedSpan ==
  (CitationReturned /\ ~result.value.isNull /\ result.lineEnd >= 0)
    => /\ result.value.lineStart = result.lineStart
       /\ result.value.lineEnd = result.lineEnd
       /\ result.value.excerpt
            = LinesJoined(filesGet(files, result.value.path).file.lines,
                          IF result.lineStart < 1 THEN 1 ELSE result.lineStart,
                          IF result.lineEnd > LineCount(files, result.value.path)
                          THEN LineCount(files, result.value.path) ELSE result.lineEnd)

\* the range of a call lies inside its file
ValidRange(table, r) ==
  /\ filesGet(table, r.relativePath).found
  /\ 1 <= r.lineStart
  /\ r.lineStart <= r.lineEnd
  /\ r.lineEnd <= LineCount(table, r.relativePath)

\* the value of a call is the citation of its range with its reason
CitesRange(table, r) ==
  /\ ~r.value.isNull
  /\ r.value.path = r.relativePath
  /\ r.value.lineStart = r.lineStart
  /\ r.value.lineEnd = r.lineEnd
  /\ r.value.excerpt
       = LinesJoined(filesGet(table, r.relativePath).file.lines, r.lineStart, r.lineEnd)
  /\ r.value.reason = r.reason

\* C16: for every registered file and every range with 1 <= lineStart <= lineEnd
\* <= number of lines, createCitation returns a citation, not null, whose excerpt is
\* those lines and whose reason is the one given (absent when none was given),
\* whatever the cited lines hold, ranges of empty lines included.
C16_ValidRangeCited ==
  (CitationReturned /\ ValidRange(files, result)) => CitesRange(files, result)

\* the same for the ranges whose lines, joined, are not the empty string
C16_WhenExcerptNotEmpty ==
  (/\ CitationReturned
   /\ ValidRange(files, result)
   /\ LinesJoined(filesGet(files, result.relativePath).file.lines,
                  result.lineStart, result.lineEnd) # <<>>)
    => CitesRange(files, result)

(* ------------------------------------------------------------------ *)
(* Properties of the file table and of the keyword index               *)
(* ------------------------------------------------------------------ *)

\* how many of the characters of a string are newlines
NewlineCount(s) == Cardinality({i \in 1..Len(s) : s[i] = "\n"})

\* the lengths, each plus one, of the lines before line k
RECURSIVE LengthsBefore(_, _)
LengthsBefore(lines, k) ==
  IF k <= 1 THEN 0 ELSE LengthsBefore(lines, k - 1) + Len(lines[k - 1]) + 1

\* C17: every file of the table has one stored line more than its content has
\* newline characters; its lines joined by newlines are its content; and the
\* offset stored for a line is the sum of (length + 1) over the lines before it.
C17_LinesOfContent ==
  \A i \in 1..Len(files) :
    /\ Len(files[i].lines) = NewlineCount(files[i].content) + 1
    /\ LinesJoined(files[i].lines, 1, Len(files[i].lines)) = files[i].content
    /\ Len(files[i].lineOffsets) = Len(files[i].lines)
    /\ \A k \in 1..Len(files[i].lines) :
         files[i].lineOffsets[k] = LengthsBefore(files[i].lines, k)

\* a file whose content ends with a newline and has empty lines between others is
\* registered beside a file of one line
C17_Witness ==
  /\ \E i \in 1..Len(files) :
       /\ Len(files[i].lines) = 14
       /\ files[i].lines[14] = <<>>
       /\ files[i].lines[13] # <<>>
       /\ files[i].lineOffsets[14] = Len(files[i].content)
  /\ \E i \in 1..Len(files) : Len(files[i].lines) = 1

\* the content holds the keyword as whole words, letter case ignored: a stretch of
\* the content that begins and ends at a word boundary and is made of the words of
\* the keyword, in order, with white space between them
WholeWordIn(keyword, content) ==
  LET words == splitWhitespace(toLowerCase(keyword))
      first == words[1][1]
      last == words[Len(words)][Len(words[Len(words)])]
  IN \E p \in 1..Len(content) :
       /\ LowerChar(content[p]) = first
       /\ p = 1 \/ content[p - 1] \notin WordChars
       /\ \E e \in p..Len(content) :
            /\ LowerChar(content[e]) = last
            /\ e = Len(content) \/ content[e + 1] \notin WordChars
            /\ splitWhitespace(toLowerCase(SubSeq(content, p, e))) = words

\* the lower-cased entries of the vocabulary
VocabularyKeys == {toLowerCase(keywords[k]) : k \in 1..Len(keywords)}

\* keywords a caller may ask for: entries of the vocabulary in other letter cases,
\* and strings that are not in it
KeywordsAsked ==
  { <<"I","D">>, <<"i","d">>, <<"S","h","o","w"," ","I","f">>, <<"S","H","O","W"," ","I","F">>, <<"N","A","M","E">>, <<"n","a","m","e">>, <<"N","a","m","e">>, <<"i","F">>, <<"z","z">>, <<"s","h","o","w">>, <<"s","h","o","w"," "," ","i","f">> }

\* the files that getFilesWithKeyword is to return for a keyword
FilesHolding(table, keyword) ==
  LET holds(f) == WholeWordIn(keyword, f.content)
  IN IF toLowerCase(keyword) \in VocabularyKeys THEN SelectSeq(table, holds) ELSE <<>>

\* the keyword index agrees with the contents of the file table
IndexAgrees(table, index) ==
  /\ DOMAIN index \subseteq VocabularyKeys
  /\ \A k \in 1..Len(keywords), i \in 1..Len(table) :
       (/\ toLowerCase(keywords[k]) \in DOMAIN index
        /\ table[i].relativePath \in index[toLowerCase(keywords[k])])
         <=> WholeWordIn(keywords[k], table[i].content)
  /\ \A key \in DOMAIN index :
       index[key] \subseteq {table[i].relativePath : i \in 1..Len(table)}
  /\ \A kw \in KeywordsAsked :
       getFilesWithKeyword(table, index, kw) = FilesHolding(table, kw)

\* C18: after initialize, a file's relative path is in the keyword index under the
\* lower-cased keyword exactly when the file's content holds the keyword as a whole
\* word, letter case ignored; every path in the index is a key of the file table;
\* and getFilesWithKeyword returns exactly those files for any letter case of the
\* keyword, and the empty list for a keyword outside the vocabulary or in no file.
C18_KeywordIndex ==
  /\ [](initialized => IndexAgrees(files, keywordIndex))
  /\ [][(/\ initialized
         /\ result' # result
         /\ result'.op = "getFilesWithKeyword")
          => result'.value = FilesHolding(files, result'.keyword)]_vars

\* after initialize a keyword of two words, asked for in another letter case, gave
\* a file that holds the words two spaces apart, while another file holds its
\* second word only
C18_Witness ==
  /\ initialized
  /\ result.op = "getFilesWithKeyword"
  /\ result.keyword = <<"S","h","o","w"," ","I","f">>
  /\ Len(result.value) = 1
  /\ result.value[1].relativePath \in keywordIndex[<<"s","h","o","w"," ","i","f">>]
  /\ includes(result.value[1].content, <<"s","h","o","w"," "," ","i","f">>)
  /\ \E i \in 1..Len(files) :
       /\ files[i].relativePath \in keywordIndex[<<"i","f">>]
       /\ files[i].relativePath \notin keywordIndex[<<"s","h","o","w"," ","i","f">>]

\* how many entries of the file table have a classification
CountOfType(table, type) ==
  LET is(f) == f.type = type
  IN Len(SelectSeq(table, is))

\* the numbers that getStats is to report for the tables
StatsOf(table, index, stats) ==
  /\ stats.examples = CountOfType(table, "example")
  /\ stats.docs = CountOfType(table, "doc")
  /\ stats.templates = CountOfType(table, "template")
  /\ stats.totalFiles
       = stats.examples + stats.docs + stats.templates + CountOfType(table, "other")
  /\ stats.keywords = Cardinality(DOMAIN index)

\* C19: in every reachable state getStats reports totalFiles = examples + docs +
\* templates + the number of files classified other, each of examples, docs and
\* templates being the number of file-table entries of that classification, and
\* keywords being the number of keys of the keyword index.
C19_Stats ==
  /\ []StatsOf(files, keywordIndex, getStats(files, keywordIndex))
  /\ [][(result' # result /\ result'.op = "getStats")
          => StatsOf(files, keywordIndex, result'.value)]_vars

\* getStats has reported examples, a template and some keywords; initialize
\* classifies no file as doc or as other
C19_Witness ==
  /\ result.op = "getStats"
  /\ result.value.examples > 1
  /\ result.value.docs = 0
  /\ result.value.templates > 0
  /\ result.value.keywords > 1
  /\ result.value.totalFiles = Len(files)

\* the relative paths of the file table
RegisteredPaths(table) == {table[i].relativePath : i \in 1..Len(table)}

\* each entry is stored under the relative path of its own file, and no two entries
\* have one relative path
PathsIdentify(table) ==
  /\ \A i \in 1..Len(table) : table[i].path = basePath \o <<"/">> \o table[i].relativePath
  /\ \A i, j \in 1..Len(table) : table[i].relativePath = table[j].relativePath => i = j

\* what getFile gave for a path is the entry of that path, or nothing when the
\* path is not registered
FileOfPath(table, relativePath, got) ==
  IF relativePath \in RegisteredPaths(table)
  THEN /\ got.found
       /\ got.file.relativePath = relativePath
       /\ got.file \in SeqToSet(table)
  ELSE ~got.found

\* C20: the relative path identifies a registered file: in every reachable state
\* each entry of the file table is stored under its own relativePath and no two
\* entries share one; getFile(p) returns a file whose relativePath is p, or not
\* found; and the classification of a registered file never changes.
C20_PathIdentity ==
  /\ [](/\ PathsIdentify(files)
        /\ \A p \in RegisteredPaths(files) \cup Paths : FileOfPath(files, p, getFile(files, p)))
  /\ [][(result' # result /\ result'.op = "getFile")
          => FileOfPath(files, result'.relativePath, result'.value)]_vars
  /\ [][\A i \in 1..Len(files) :
          \E j \in 1..Len(files') :
            /\ files'[j].relativePath = files[i].relativePath
            /\ files'[j].type = files[i].type]_vars

\* a second pass of ingestion has registered again the files of the first, examples
\* and a template among them, and getFile has returned one of them
C20_Witness ==
  /\ ingestRuns = 2
  /\ \A c \in Callers : pc[c] = "done"
  /\ Len(files) > 2
  /\ \E i, j \in 1..Len(files) : files[i].type = "example" /\ files[j].type = "template"
  /\ result.op = "getFile"
  /\ result.value.found

(* ------------------------------------------------------------------ *)
(* Properties of the lookup by name and of metadata                    *)
(* ------------------------------------------------------------------ *)

\* the name of a file without its directories and without its extension
BaseNameOf(p) ==
  LET slashes == {i \in 1..Len(p) : p[i] = "/"}
      name == IF slashes = {} THEN p ELSE SubSeq(p, Max(slashes) + 1, Len(p))
      dots == {i \in 2..Len(name) : name[i] = "."}
  IN IF dots = {} THEN name ELSE SubSeq(name, 1, Max(dots) - 1)

\* what getExampleByName gives is an example of the file table with that base name
ExampleOfName(table, name, got) ==
  got.found
    => /\ got.file \in SeqToSet(table)
       /\ got.file.type = "example"
       /\ BaseNameOf(got.file.relativePath) = name

\* C21: after initialize, every file classified example is returned by
\* getExampleByName of its base name without extension, and every file that
\* getExampleByName(n) returns is a file-table entry classified example whose base
\* name is n; also when two example files share a base name.
C21_ExamplesByName ==
  initialized
    => /\ \A i \in 1..Len(files) :
            files[i].type = "example"
              => /\ getExampleByName(examplesByName, BaseNameOf(files[i].relativePath)).found
                 /\ getExampleByName(examplesByName, BaseNameOf(files[i].relativePath)).file
                      = files[i]
       /\ \A n \in DOMAIN examplesByName :
            ExampleOfName(files, n, getExampleByName(examplesByName, n))

\* the same for the examples whose base name no other example has
C21_WhenNamesDiffer ==
  initialized
    => /\ \A i \in 1..Len(files) :
            (/\ files[i].type = "example"
             /\ \A j \in 1..Len(files) :
                  (/\ files[j].type = "example"
                   /\ BaseNameOf(files[j].relativePath) = BaseNameOf(files[i].relativePath))
                    => j = i)
              => /\ getExampleByName(examplesByName, BaseNameOf(files[i].relativePath)).found
                 /\ getExampleByName(examplesByName, BaseNameOf(files[i].relativePath)).file
                      = files[i]
       /\ \A n \in DOMAIN examplesByName :
            ExampleOfName(files, n, getExampleByName(examplesByName, n))
       /\ \A n \in { <<"a">>, <<"b">>, <<"t">>, <<"z","z">> } :
            getExampleByName(examplesByName, n).found
              <=> \E i \in 1..Len(files) :
                    files[i].type = "example" /\ BaseNameOf(files[i].relativePath) = n

(* ------------------------------------------------------------------ *)
(* Ingestion of files with a metadata block                            *)
(* ------------------------------------------------------------------ *)

\* field lines of a metadata block
FieldLines ==
  { <<" "," ","t","i","t","l","e",":"," ","T">>, <<" "," ","s","h","o","r","t"," ","t","i","t","l","e",":"," ","S">>, <<" "," ","d","o","c","u","m","e","n","t","a","t","i","o","n",":"," ","D">>, <<" "," ","e","x","a","m","p","l","e"," ","s","t","a","r","t",":"," ","1","2">>, <<" "," ","e","x","a","m","p","l","e"," ","e","n","d",":"," ","3">> }

\* the most field lines a block of the model holds
MaxFieldLines == 3

\* the sequences of n different field lines
FieldOrders(n) ==
  {s \in [1..n -> FieldLines] : \A i, j \in 1..n : s[i] = s[j] => i = j}

\* contents with a metadata block of up to MaxFieldLines field lines in every order,
\* each followed by a question, and contents without a block
MetadataContents ==
  { <<"m","e","t","a","d","a","t","a",":","\n">> \o join(s, "\n") \o <<"\n","-","-","-","\n","q","u","e","s","t","i","o","n",":"," ","x">> :
      s \in UNION {FieldOrders(n) : n \in 0..MaxFieldLines} }
    \cup { <<>>, <<"t","i","t","l","e",":"," ","T">>, <<"q","u","e","s","t","i","o","n",":"," ","x","\n"," "," ","t","i","t","l","e",":"," ","T">>, <<"m","e","t","a","d","a","t","a",":"," ","x","\n"," "," ","t","i","t","l","e",":"," ","T">> }

MetadataInit ==
  /\ fs \in {Corpus((File_ex_a :> c) @@ (File_tp_t :> <<"x">>)) : c \in MetadataContents}
  /\ IndexConstructed
  /\ pc = [c \in Callers |-> "idle"]
  /\ pos = [c \in Callers |-> 0]
  /\ ingestRuns = 0
  /\ result = NoResult
  /\ HostIdle

MetadataNext ==
  \/ result = NoResult /\ InitializeCall("c1")
  \/ result = NoResult /\ IndexNext("c1")
  \/ result = NoResult /\ InitializeFinish("c1")
  \/ \E p \in Paths : GetFile(p)
  \/ TakeResult

MetadataSpec == MetadataInit /\ [][MetadataNext]_vars

\* the field that a field line states: its name and its value
StatedField(line) ==
  CASE line = <<" "," ","t","i","t","l","e",":"," ","T">> -> ("title" :> <<"T">>)
    [] line = <<" "," ","s","h","o","r","t"," ","t","i","t","l","e",":"," ","S">> -> ("shortTitle" :> <<"S">>)
    [] line = <<" "," ","d","o","c","u","m","e","n","t","a","t","i","o","n",":"," ","D">> -> ("documentation" :> <<"D">>)
    [] line = <<" "," ","e","x","a","m","p","l","e"," ","s","t","a","r","t",":"," ","1","2">> -> ("exampleStart" :> 12)
    [] line = <<" "," ","e","x","a","m","p","l","e"," ","e","n","d",":"," ","3">> -> ("exampleEnd" :> 3)

\* the field lines of the block of a content: the indented lines that follow a first
\* line `metadata:`
BlockLines(content) ==
  LET lines == split(content, "\n")
      RECURSIVE upTo(_)
      upTo(k) == IF k <= Len(lines) /\ lines[k] \in FieldLines THEN upTo(k + 1) ELSE k
  IN IF content # <<>> /\ lines[1] = <<"m","e","t","a","d","a","t","a",":">>
     THEN {lines[k] : k \in 2..(upTo(2) - 1)} ELSE {}

\* the metadata record in which each field line of the block has given its own field
StatedMetadata(content) ==
  LET stated == {StatedField(l) : l \in BlockLines(content)}
      names == UNION {DOMAIN f : f \in stated}
  IN [n \in names |-> (CHOOSE f \in stated : n \in DOMAIN f)[n]]

\* C22: metadata extraction never fails and takes each field from its own line:
\* a content with no metadata block gives the empty record, and in a block the
\* title, short title, documentation link and the two example-range integers are
\* each those of their own field line, whatever other fields the block holds and
\* in whatever order, so that `short title: S` with `title: T` gives title T and
\* shortTitle S.
C22_FieldsIndependent ==
  \A i \in 1..Len(files) : files[i].metadata = StatedMetadata(files[i].content)

\* the block has a short title line and no title line before it
ShortTitleFirst(content) ==
  LET block == BlockLines(content)
      lines == split(content, "\n")
  IN /\ <<" "," ","s","h","o","r","t"," ","t","i","t","l","e",":"," ","S">> \in block
     /\ \A j, k \in 1..Len(lines) :
          (lines[j] = <<" "," ","t","i","t","l","e",":"," ","T">> /\ lines[k] = <<" "," ","s","h","o","r","t"," ","t","i","t","l","e",":"," ","S">>) => k < j

\* the same for the blocks in which the title line comes before the short title
\* line or there is no short title line; in the others the title is the value of
\* the short title line, and the other fields are as stated
C22_WhenTitleFirst ==
  \A i \in 1..Len(files) :
    IF ShortTitleFirst(files[i].content)
    THEN files[i].metadata
           = [n \in DOMAIN StatedMetadata(files[i].content) \cup {"title"} |->
                IF n = "title" THEN <<"S">> ELSE StatedMetadata(files[i].content)[n]]
    ELSE files[i].metadata = StatedMetadata(files[i].content)

(* ------------------------------------------------------------------ *)
(* The HTTP transport: /mcp, its middleware and the session table      *)
(* ------------------------------------------------------------------ *)

\* calls next(), or ends the request with a status
CallsNext == [next |-> TRUE, status |-> 0]

Ends(status) == [next |-> FALSE, status |-> status]

\* authMiddleware: env.token is MCP_AUTH_TOKEN, <<>> when it is unset or empty
authMiddleware(token, headers) ==
  IF token = <<>> THEN CallsNext
  ELSE IF \/ "authorization" \notin DOMAIN headers
          \/ headers["authorization"] = <<>>
          \/ ~OccursAt(headers["authorization"], <<"B","e","a","r","e","r"," ">>, 0)
       THEN Ends(401)
  ELSE IF slice(headers["authorization"], 7, Len(headers["authorization"])) # token
       THEN Ends(401)
  ELSE CallsNext

\* originMiddleware: origins is MCP_ALLOWED_ORIGINS
originMiddleware(origins, headers) ==
  IF origins = {} THEN CallsNext
  ELSE IF "origin" \notin DOMAIN headers \/ headers["origin"] = <<>> THEN Ends(403)
  ELSE IF headers["origin"] \notin origins THEN Ends(403)
  ELSE CallsNext

\* the middleware of the /mcp routes, in the order the routes name them
middleware(config, headers) ==
  IF ~originMiddleware(config.origins, headers).next
  THEN originMiddleware(config.origins, headers)
  ELSE authMiddleware(config.token, headers)

\* (req.headers['x-mcp-session-id'] as string) || 'default'
sessionIdOf(headers) ==
  IF "x-mcp-session-id" \in DOMAIN headers /\ headers["x-mcp-session-id"] # <<>>
  THEN headers["x-mcp-session-id"] ELSE <<"d","e","f","a","u","l","t">>

\* getOrCreateSession: the table after the call at time t; a session that is created
\* gets the server that createMcpServer() makes, the one numbered `created + 1`
getOrCreateSession(table, created, sessionId, t) ==
  IF sessionId \in DOMAIN table
  THEN [ sessions |-> [table EXCEPT ![sessionId].lastActivity = t],
         serversCreated |-> created ]
  ELSE [ sessions |-> [id \in DOMAIN table \cup {sessionId} |->
                         IF id = sessionId
                         THEN [server |-> created + 1, lastActivity |-> t]
                         ELSE table[id]],
         serversCreated |-> created + 1 ]

\* 30 * 60 * 1000 ms, in minutes
SessionTimeout == 30

\* the sweep that removes a session as soon as it is idle for the timeout
sweep_AtTimeout(table, t) ==
  [id \in {i \in DOMAIN table : ~(t - table[i].lastActivity >= SessionTimeout)} |-> table[id]]

\* the callback of setInterval: the table without the sessions idle for longer than
\* the timeout
sweep(table, t) ==
  [id \in {i \in DOMAIN table : ~(t - table[i].lastActivity > SessionTimeout)} |-> table[id]]

\* the index and the host change nothing while a request is answered
HttpFrame ==
  UNCHANGED <<fs, files, examplesByName, keywordIndex, initialized, pc, pos, ingestRuns,
              result, mode, hostPc, constructed, serving, exitCode, env>>

\* GET /mcp: the middleware, then the handler, which answers with the server's
\* description and index.getStats()
GetMcp(headers) ==
  /\ serving /\ mode = "http"
  /\ response = NoResponse
  /\ response' = [ method |-> "GET", headers |-> headers,
                   handled |-> middleware(env, headers).next,
                   status |-> IF middleware(env, headers).next THEN 200
                              ELSE middleware(env, headers).status ]
  /\ UNCHANGED <<sessions, serversCreated, now>>
  /\ HttpFrame

\* POST /mcp: the middleware, then the handler up to its first await:
\* getOrCreateSession, and 400 for a body without a method
PostMcp(headers, hasMethod) ==
  /\ serving /\ mode = "http"
  /\ response = NoResponse
  /\ LET passed == middleware(env, headers)
         got == getOrCreateSession(sessions, serversCreated, sessionIdOf(headers), now)
     IN IF passed.next
        THEN /\ sessions' = got.sessions
             /\ serversCreated' = got.serversCreated
             /\ response' = [ method |-> "POST", headers |-> headers,
                              handled |-> TRUE,
                              status |-> IF hasMethod THEN 200 ELSE 400 ]
        ELSE /\ UNCHANGED <<sessions, serversCreated>>
             /\ response' = [ method |-> "POST", headers |-> headers,
                              handled |-> FALSE, status |-> passed.status ]
  /\ UNCHANGED now
  /\ HttpFrame

\* the response has been sent
Respond ==
  /\ response # NoResponse
  /\ response' = NoResponse
  /\ UNCHANGED <<sessions, serversCreated, now>>
  /\ HttpFrame

\* the timer of setInterval fires
Sweep ==
  /\ sessions' = sweep(sessions, now)
  /\ UNCHANGED <<serversCreated, now, response>>
  /\ HttpFrame

\* the latest time of the model, in minutes
MaxNow == 35

\* the minutes between two sweeps: 5 * 60 * 1000 ms
SweepEvery == 5

\* time passes
Tick ==
  /\ now < MaxNow
  /\ now' = now + SweepEvery
  /\ UNCHANGED <<sessions, serversCreated, response>>
  /\ HttpFrame

\* the headers of a request: each of Authorization, Origin and x-mcp-session-id
\* sent or left out
RequestHeaders ==
  LET h(name, values) == {[o \in {} |-> 0]} \cup {name :> v : v \in values}
  IN {a @@ o @@ i :
        a \in h("authorization", { <<"B","e","a","r","e","r"," ","t">>, <<"B","e","a","r","e","r"," ","u">>, <<"b","e","a","r","e","r"," ","t">> }),
        o \in h("origin", { <<"o">>, <<"x">> }),
        i \in h("x-mcp-session-id", { <<"s">>, <<>> })}

\* the environment a server can be started in
Environments ==
  {[token |-> t, origins |-> o] : t \in { <<>>, <<"t">> }, o \in { {}, { <<"o">> } }}

HttpInit ==
  /\ fs = CorpusCitations
  /\ IndexConstructed
  /\ pc = [c \in Callers |-> "idle"]
  /\ pos = [c \in Callers |-> 0]
  /\ ingestRuns = 0
  /\ result = NoResult
  /\ mode = "http"
  /\ hostPc = "start"
  /\ constructed = FALSE
  /\ serving = FALSE
  /\ exitCode = -1
  /\ env \in Environments
  /\ sessions = [id \in {} |-> 0]
  /\ serversCreated = 0
  /\ now = 0
  /\ response = NoResponse

HttpNext ==
  \/ HostInitializeIndex
  \/ HostIndexNext
  \/ HostInitializeFinish
  \/ HostIndexReady
  \/ HostListen
  \/ \E h \in RequestHeaders : GetMcp(h)
  \/ \E h \in RequestHeaders, hasMethod \in BOOLEAN : PostMcp(h, hasMethod)
  \/ Respond
  \/ Sweep
  \/ Tick

HttpSpec == HttpInit /\ [][HttpNext]_vars

(* ------------------------------------------------------------------ *)
(* Properties of the HTTP transport                                    *)
(* ------------------------------------------------------------------ *)

\* the request carried `Authorization: Bearer <token>` with the configured token
\* and an Origin of the allowlist
Authorized(config, headers) ==
  /\ config.token # <<>>
  /\ "authorization" \in DOMAIN headers
  /\ headers["authorization"] = <<"B","e","a","r","e","r"," ">> \o config.token
  /\ "origin" \in DOMAIN headers
  /\ headers["origin"] \in config.origins

\* a request that was not authorized is answered 401 or 403 and leaves the session
\* table as it was
Rejected ==
  (response' # NoResponse /\ response = NoResponse /\ ~Authorized(env, response'.headers))
    => /\ response'.status \in {401, 403}
       /\ sessions' = sessions
       /\ serversCreated' = serversCreated

\* C23: the handler of a GET or POST /mcp request runs only if the request carried
\* `Authorization: Bearer <MCP_AUTH_TOKEN>` with the exact configured token and an
\* Origin header of the MCP_ALLOWED_ORIGINS allowlist; any other request is
\* answered 401 or 403 and no session is created or touched.
C23_TokenAndOrigin ==
  /\ [](response.handled => Authorized(env, response.headers))
  /\ [][Rejected]_vars

\* both MCP_AUTH_TOKEN and MCP_ALLOWED_ORIGINS are set
Configured == env.token # <<>> /\ env.origins # {}

\* the same for a server started with both MCP_AUTH_TOKEN and MCP_ALLOWED_ORIGINS set
C23_WhenConfigured ==
  /\ []((Configured /\ response.handled) => Authorized(env, response.headers))
  /\ [][Configured => Rejected]_vars

(* ------------------------------------------------------------------ *)
(* The tools explain_term and get_authoritative_snippets               *)
(* ------------------------------------------------------------------ *)

\* keys of termDefinitions in explainTerm: four of its lower-case keys and one of
\* its keys with capital letters
termDefinitionKeys == { <<"q","u","e","s","t","i","o","n">>, <<"f","i","e","l","d","s">>, <<"c","o","d","e">>, <<"s","h","o","w"," ","i","f">>, <<"D","A","L","i","s","t">> }

\* termDefinitions[term] is truthy: an own key, or a property that the object
\* literal inherits from Object.prototype
termDefined(term) == term \in termDefinitionKeys \/ term = <<"c","o","n","s","t","r","u","c","t","o","r">>

\* the loop of explainTerm over the search results: a citation and an example for
\* every result whose createCitation is not null
citeResults(table, results, reason) ==
  LET RECURSIVE go(_, _, _)
      push(i, citations, examples, citation) ==
        IF citation.isNull THEN go(i + 1, citations, examples)
        ELSE go(i + 1, Append(citations, citation),
                Append(examples, [snippet |-> results[i].excerpt, citations |-> <<citation>>]))
      go(i, citations, examples) ==
        IF i > Len(results) THEN [citations |-> citations, examples |-> examples]
        ELSE push(i, citations, examples,
                  createCitation(table, results[i].relativePath, results[i].lineStart,
                                 results[i].lineEnd, reason))
  IN go(1, <<>>, <<>>)

\* explainTerm: the explanation is the built-in definition, the sentence on usage
\* or the sentence UNKNOWN / NOT CONFIRMED IN SOURCES
explainTerm(table, inputTerm) ==
  LET term == toLowerCase(inputTerm)
      found == search(table, term, "maxResults" :> (IF termDefined(term) THEN 3 ELSE 5))
      cited(reason) == citeResults(table, found.results, reason \o inputTerm \o <<"\"">>)
      answer(kind, c) ==
        [threw |-> FALSE, explanation |-> kind, citations |-> c.citations, examples |-> c.examples]
  IN IF found.threw THEN [threw |-> TRUE]
     ELSE IF termDefined(term) THEN answer("definition", cited(<<"E","x","a","m","p","l","e"," ","o","f"," ","\"">>))
     ELSE IF Len(found.results) > 0 THEN answer("usage", cited(<<"U","s","a","g","e"," ","o","f"," ","\"">>))
     ELSE [threw |-> FALSE, explanation |-> "unknown", citations |-> <<>>, examples |-> <<>>]

\* advancedTopics of getAuthoritativeSnippets: two of its six entries
advancedTopics == << <<"a","p","i">>, <<"r","e","d","i","s">> >>

\* getAuthoritativeSnippets without the test of seenPaths
getAuthoritativeSnippets_NoSeenPaths(table, topic, desiredCount) ==
  LET searchTerms == << topic, topic \o <<" ","e","x","a","m","p","l","e">>, topic \o <<" ","u","s","a","g","e">> >>
      snippetOf(r) ==
        [ path |-> r.relativePath, lineStart |-> r.lineStart, lineEnd |-> r.lineEnd,
          excerpt |-> r.excerpt,
          whyThisMatters |->
            IF "title" \in DOMAIN getFile(table, r.relativePath).file.metadata
                 /\ getFile(table, r.relativePath).file.metadata["title"] # <<>>
            THEN <<"E","x","a","m","p","l","e",":"," ">> \o getFile(table, r.relativePath).file.metadata["title"]
            ELSE <<"C","o","n","t","a","i","n","s"," ","u","s","a","g","e"," ","o","f"," ","\"">> \o topic \o <<"\"">> ]
      RECURSIVE perResult(_, _, _, _)
      perResult(results, i, seen, snippets) ==
        IF i > Len(results) THEN [seen |-> seen, snippets |-> snippets]
        ELSE IF Len(snippets) + 1 >= desiredCount
             THEN [ seen |-> seen \cup {results[i].relativePath},
                    snippets |-> Append(snippets, snippetOf(results[i])) ]
        ELSE perResult(results, i + 1, seen \cup {results[i].relativePath},
                       Append(snippets, snippetOf(results[i])))
      RECURSIVE perTerm(_, _)
      searched(k, acc, found) ==
        IF found.threw THEN [threw |-> TRUE, snippets |-> <<>>]
        ELSE perTerm(k + 1, perResult(found.results, 1, acc.seen, acc.snippets))
      perTerm(k, acc) ==
        IF k > Len(searchTerms) \/ Len(acc.snippets) >= desiredCount
        THEN [threw |-> FALSE, snippets |-> acc.snippets]
        ELSE searched(k, acc,
                      search(table, searchTerms[k],
                             ("maxResults" :> desiredCount * 2) @@ ("scope" :> "docs_and_examples")))
      gaps(snippets) ==
        (IF Len(snippets) < desiredCount
         THEN << [kind |-> "only found", found |-> Len(snippets), requested |-> desiredCount] >>
         ELSE <<>>)
        \o SelectSeq([k \in 1..Len(advancedTopics) |-> [kind |-> "advanced", topic |-> advancedTopics[k]]],
                     LAMBDA g : includes(toLowerCase(topic), g.topic))
      answer(got) ==
        IF got.threw THEN [threw |-> TRUE]
        ELSE [threw |-> FALSE, snippets |-> got.snippets, coverageGaps |-> gaps(got.snippets)]
  IN answer(perTerm(1, [seen |-> {}, snippets |-> <<>>]))

\* getAuthoritativeSnippets: the snippets and the coverage gaps
getAuthoritativeSnippets(table, topic, desiredCount) ==
  LET searchTerms == << topic, topic \o <<" ","e","x","a","m","p","l","e">>, topic \o <<" ","u","s","a","g","e">> >>
      snippetOf(r) ==
        [ path |-> r.relativePath, lineStart |-> r.lineStart, lineEnd |-> r.lineEnd,
          excerpt |-> r.excerpt,
          whyThisMatters |->
            IF "title" \in DOMAIN getFile(table, r.relativePath).file.metadata
                 /\ getFile(table, r.relativePath).file.metadata["title"] # <<>>
            THEN <<"E","x","a","m","p","l","e",":"," ">> \o getFile(table, r.relativePath).file.metadata["title"]
            ELSE <<"C","o","n","t","a","i","n","s"," ","u","s","a","g","e"," ","o","f"," ","\"">> \o topic \o <<"\"">> ]
      RECURSIVE perResult(_, _, _, _)
      perResult(results, i, seen, snippets) ==
        IF i > Len(results) THEN [seen |-> seen, snippets |-> snippets]
        ELSE IF results[i].relativePath \in seen THEN perResult(results, i + 1, seen, snippets)
        ELSE IF Len(snippets) + 1 >= desiredCount
             THEN [ seen |-> seen \cup {results[i].relativePath},
                    snippets |-> Append(snippets, snippetOf(results[i])) ]
        ELSE perResult(results, i + 1, seen \cup {results[i].relativePath},
                       Append(snippets, snippetOf(results[i])))
      RECURSIVE perTerm(_, _)
      searched(k, acc, found) ==
        IF found.threw THEN [threw |-> TRUE, snippets |-> <<>>]
        ELSE perTerm(k + 1, perResult(found.results, 1, acc.seen, acc.snippets))
      perTerm(k, acc) ==
        IF k > Len(searchTerms) \/ Len(acc.snippets) >= desiredCount
        THEN [threw |-> FALSE, snippets |-> acc.snippets]
        ELSE searched(k, acc,
                      search(table, searchTerms[k],
                             ("maxResults" :> desiredCount * 2) @@ ("scope" :> "docs_and_examples")))
      gaps(snippets) ==
        (IF Len(snippets) < desiredCount
         THEN << [kind |-> "only found", found |-> Len(snippets), requested |-> desiredCount] >>
         ELSE <<>>)
        \o SelectSeq([k \in 1..Len(advancedTopics) |-> [kind |-> "advanced", topic |-> advancedTopics[k]]],
                     LAMBDA g : includes(toLowerCase(topic), g.topic))
      answer(got) ==
        IF got.threw THEN [threw |-> TRUE]
        ELSE [threw |-> FALSE, snippets |-> got.snippets, coverageGaps |-> gaps(got.snippets)]
  IN answer(perTerm(1, [seen |-> {}, snippets |-> <<>>]))

ExplainTerm(term) ==
  /\ initialized
  /\ Returns([op |-> "explainTerm", term |-> term, value |-> explainTerm(files, term)])

GetAuthoritativeSnippets(topic, desiredCount) ==
  /\ initialized
  /\ Returns([op |-> "getAuthoritativeSnippets", topic |-> topic, desiredCount |-> desiredCount,
              value |-> getAuthoritativeSnippets(files, topic, desiredCount)])

\* examples that hold a built-in term, the words example and usage, and a title
CorpusTools ==
  Corpus((File_ex_a :> <<"i","d",":"," ","x","\n","c","o","d","e",":"," ","|","\n"," "," ","u","s","a","g","e">>)
         @@ (File_ex_s_b :> <<"m","e","t","a","d","a","t","a",":","\n"," "," ","t","i","t","l","e",":"," ","B","\n","-","-","-","\n","a","n"," ","e","x","a","m","p","l","e">>)
         @@ (File_dm_a :> <<"u","s","a","g","e"," ","o","f"," ","i","t","\n","\n","\n","\n","\n","\n","\n","\n","\n","\n","\n","\n","m","o","r","e"," ","u","s","a","g","e">>)
         @@ (File_tp_t :> <<"i","d"," ","e","x","a","m","p","l","e">>))

\* terms asked of explain_term
TermsAsked ==
  { <<"c","o","d","e">>, <<"C","o","d","e">>, <<"f","i","e","l","d","s">>, <<"D","A","L","i","s","t">>, <<"i","d">>, <<"u","s","a","g","e">>, <<"z","z">>, <<"c","o","n","s","t","r","u","c","t","o","r">>, <<"s","h","o","w"," ","i","f">> }

\* topics asked of get_authoritative_snippets
TopicsAsked == { <<"i","d">>, <<"I","D">>, <<"z","z">>, <<"a","p","i">>, <<"u","s","a","g","e">>, <<"a","n">> }

\* the largest desiredCount of the model; the tool takes 1..12
MaxDesired == 3

ToolsInit ==
  /\ fs \in {CorpusTools, CorpusFields, CorpusLong, CorpusTies, CorpusTitles, CorpusPunctuation}
  /\ IndexConstructed
  /\ pc = [c \in Callers |-> "idle"]
  /\ pos = [c \in Callers |-> 0]
  /\ ingestRuns = 0
  /\ result = NoResult
  /\ HostIdle

\* initializeIndex builds the ToolsManager after `await index.initialize()`
ToolsNext ==
  \/ InitializeCall("c1")
  \/ IndexNext("c1")
  \/ InitializeFinish("c1")
  \/ \E t \in TermsAsked : ExplainTerm(t)
  \/ \E t \in TopicsAsked, d \in 1..MaxDesired : GetAuthoritativeSnippets(t, d)
  \/ TakeResult

ToolsSpec == ToolsInit /\ [][ToolsNext]_vars

(* ------------------------------------------------------------------ *)
(* Properties of the tools                                             *)
(* ------------------------------------------------------------------ *)

\* explain_term has answered
Explained == result.op = "explainTerm" /\ ~result.value.threw

\* the index search for the term of the call returns no result
NotInSources(table, term) == search(table, toLowerCase(term), [o \in {} |-> 0]).results = <<>>

\* every citation of the answer is what createCitation gives for its path, range
\* and reason on the table
CitationsFromTable(table, citations) ==
  \A i \in 1..Len(citations) :
    citations[i] = createCitation(table, citations[i].path, citations[i].lineStart,
                                  citations[i].lineEnd, citations[i].reason)

\* the answer of explain_term is as the sources allow
SupportedAnswer(table, r) ==
  /\ NotInSources(table, r.term)
       => /\ r.value.explanation = "unknown"
          /\ r.value.citations = <<>>
          /\ r.value.examples = <<>>
  /\ r.value.explanation # "unknown" => Len(r.value.citations) >= 1
  /\ CitationsFromTable(table, r.value.citations)

\* C24: explain_term answers UNKNOWN / NOT CONFIRMED IN SOURCES, with no citations
\* and no examples, whenever the index search for the term returns no result; every
\* other explanation comes with at least one citation; and each citation it returns
\* is the one createCitation produces on the live file table.
C24_UnknownOrCited == Explained => SupportedAnswer(files, result)

\* the same for the terms that termDefinitions has no entry for
C24_WhenNotBuiltIn ==
  (Explained /\ ~termDefined(toLowerCase(result.term))) => SupportedAnswer(files, result)

\* get_authoritative_snippets has answered
SnippetsReturned == result.op = "getAuthoritativeSnippets" /\ ~result.value.threw

\* the results of the three searches of a topic, one list after the other
SearchesOf(table, topic, desiredCount) ==
  LET opts == ("maxResults" :> desiredCount * 2) @@ ("scope" :> "docs_and_examples")
  IN search(table, topic, opts).results
       \o search(table, topic \o <<" ","e","x","a","m","p","l","e">>, opts).results
       \o search(table, topic \o <<" ","u","s","a","g","e">>, opts).results

\* of a list of results, the first one of each path, in the order of the list
FirstOfEachPath(results) ==
  LET first(i) == \A j \in 1..(i - 1) : results[j].relativePath # results[i].relativePath
      RECURSIVE go(_, _)
      go(i, acc) ==
        IF i > Len(results) THEN acc
        ELSE go(i + 1, IF first(i) THEN Append(acc, results[i]) ELSE acc)
  IN go(1, <<>>)

\* snippet s shows result r
ShowsResult(s, r) ==
  /\ s.path = r.relativePath
  /\ s.lineStart = r.lineStart
  /\ s.lineEnd = r.lineEnd
  /\ s.excerpt = r.excerpt

\* the coverage gaps hold one 'Only found N snippets' message for n found snippets
OnlyFound(gaps, n, requested) ==
  \E i \in 1..Len(gaps) :
    gaps[i] = [kind |-> "only found", found |-> n, requested |-> requested]

\* C25: for every topic and desiredCount the snippets that get_authoritative_snippets
\* returns have pairwise distinct paths, are at most desiredCount, are taken in order
\* from the searches `topic`, `topic example` and `topic usage`, and coverageGaps
\* holds the 'Only found N snippets' message exactly when fewer than desiredCount
\* snippets are returned.
C25_SnippetsDeduped ==
  SnippetsReturned
    => LET snippets == result.value.snippets
           pool == FirstOfEachPath(SearchesOf(files, result.topic, result.desiredCount))
       IN /\ \A i, j \in 1..Len(snippets) : snippets[i].path = snippets[j].path => i = j
          /\ Len(snippets) <= result.desiredCount
          /\ Len(snippets) = Min({result.desiredCount, Len(pool)})
          /\ \A i \in 1..Len(snippets) : ShowsResult(snippets[i], pool[i])
          /\ (\E i \in 1..Len(result.value.coverageGaps) :
                result.value.coverageGaps[i].kind = "only found")
               <=> Len(snippets) < result.desiredCount
          /\ Len(snippets) < result.desiredCount
               => OnlyFound(result.value.coverageGaps, Len(snippets), result.desiredCount)

\* three snippets were asked for and returned, one from each search, while the
\* searches gave more results than that, some of a path already taken
C25_Witness ==
  /\ SnippetsReturned
  /\ result.desiredCount = 3
  /\ Len(result.value.snippets) = 3
  /\ result.value.coverageGaps = <<>>
  /\ Len(search(files, result.topic, "maxResults" :> 6).results) = 1
  /\ Len(SearchesOf(files, result.topic, 3)) > 4

\* fewer snippets than asked for were found, and the gap is reported
C25_WitnessGap ==
  /\ SnippetsReturned
  /\ Len(result.value.snippets) = 1
  /\ result.desiredCount = 2
  /\ OnlyFound(result.value.coverageGaps, 1, 2)

(* ------------------------------------------------------------------ *)
(* Searches with characters of pattern syntax; results as citations    *)
(* ------------------------------------------------------------------ *)

\* C26: a call of search returns a list and does not raise, for every query, also
\* one with characters that have a meaning in a pattern, and every corpus, also
\* one whose lines hold those characters.
C26_SearchNeverRaises ==
  (result.op = "search" /\ GlobsCompile(result.options)) => ~result.value.threw

\* a term of the query is no valid pattern and occurs in a line of a candidate file
BadTermOccurs(table, options, queryTerms) ==
  \E i \in CandidateFiles(table, options) :
    \E n \in 1..Len(table[i].lines), k \in 1..Len(queryTerms) :
      /\ includes(toLowerCase(table[i].lines[n]), queryTerms[k])
      /\ ~compilePattern(queryTerms[k]).ok

\* a search whose globs compile raises exactly when a term that is no valid pattern
\* occurs in a line of a candidate file
C26_RaisesOnBadTerm ==
  (result.op = "search" /\ GlobsCompile(result.options))
    => (result.value.threw <=> BadTermOccurs(files, result.options, TermsOf(result.query)))

\* the citation that createCitation gives for a result of search
CitationOf(table, r, reason) ==
  createCitation(table, r.relativePath, r.lineStart, r.lineEnd, reason)

\* C27: for every result r that search returns on an initialized index,
\* createCitation(r.relativePath, r.lineStart, r.lineEnd, reason) succeeds and
\* gives a citation whose path, lineStart and lineEnd are those of r and whose
\* excerpt is r.excerpt.
C27_ResultsCitable ==
  (SearchReturned /\ initialized)
    => \A i \in 1..Len(result.value.results), reason \in Reasons :
         /\ ~CitationOf(files, result.value.results[i], reason).isNull
         /\ CitationOf(files, result.value.results[i], reason).path
              = result.value.results[i].relativePath
         /\ CitationOf(files, result.value.results[i], reason).lineStart
              = result.value.results[i].lineStart
         /\ CitationOf(files, result.value.results[i], reason).lineEnd
              = result.value.results[i].lineEnd
         /\ CitationOf(files, result.value.results[i], reason).excerpt
              = result.value.results[i].excerpt
         /\ CitationOf(files, result.value.results[i], reason).reason = reason

\* on an initialized index search returned a window cut by the end of its file, a
\* window of one line, and a window that begins with empty lines
C27_Witness ==
  /\ SearchReturned
  /\ initialized
  /\ \E i \in 1..Len(result.value.results) :
       /\ result.value.results[i].lineStart > 1
       /\ result.value.results[i].lineEnd = LineCount(files, result.value.results[i].relativePath)
       /\ result.value.results[i].lineEnd < result.value.results[i].hitLine + 5
  /\ \E i \in 1..Len(result.value.results) :
       result.value.results[i].lineStart = result.value.results[i].lineEnd
  /\ \E i \in 1..Len(result.value.results) :
       LET r == result.value.results[i]
       IN filesGet(files, r.relativePath).file.lines[r.lineStart] = <<>>

(* ------------------------------------------------------------------ *)
(* Properties of overlapping calls of initialize                       *)
(* ------------------------------------------------------------------ *)

\* some call of initialize is suspended at an await of its ingestion
Ingesting == \E c \in Callers : pc[c] = "running"

\* C28: when two calls of initialize on one index overlap, the ingestion and the
\* build of the keyword index run once, and no caller's initialize resolves while
\* the file table or the keyword index is still being written.
C28_OverlapBuildsOnce ==
  /\ ingestRuns <= 1
  /\ \A c \in Callers : pc[c] = "done" => ~Ingesting

\* the ingestion runs a second time only when initialize is called while an
\* earlier call is suspended
C28_SecondRunOverlaps ==
  [][(ingestRuns' > ingestRuns /\ ingestRuns >= 1) => Ingesting]_vars

(* ------------------------------------------------------------------ *)
(* Properties of the classification of files                           *)
(* ------------------------------------------------------------------ *)

\* the options of a call with another scope
WithScope(options, scope) == [s \in {"scope"} |-> scope] @@ options

C29_WitnessDocs ==
  /\ initialized
  /\ result.op = "search"
  /\ "scope" \in DOMAIN result.options
  /\ result.options["scope"] = "docs"
  /\ "fileGlobs" \in DOMAIN result.options
  /\ ~GlobsCompile(result.options)
  /\ \E i \in 1..Len(files) :
       includes(toLowerCase(files[i].content), toLowerCase(result.query))

(* ------------------------------------------------------------------ *)
(* Properties of the session table                                     *)
(* ------------------------------------------------------------------ *)

\* the session id a request asks for
SessionAsked(headers) ==
  IF "x-mcp-session-id" \notin DOMAIN headers THEN <<"d","e","f","a","u","l","t">>
  ELSE IF headers["x-mcp-session-id"] = <<>> THEN <<"d","e","f","a","u","l","t">>
  ELSE headers["x-mcp-session-id"]

\* a POST /mcp request that reached its handler: the session of the id it asks for
\* is in the table with lastActivity the current time; it is the session that was
\* there, or a new one when there was none; no other session changes
SessionServed ==
  (response' # response /\ response'.handled /\ response'.method = "POST")
    => LET id == SessionAsked(response'.headers)
       IN /\ DOMAIN sessions' = DOMAIN sessions \cup {id}
          /\ sessions'[id].lastActivity = now
          /\ \A other \in DOMAIN sessions \ {id} : sessions'[other] = sessions[other]
          /\ IF id \in DOMAIN sessions
             THEN /\ sessions'[id].server = sessions[id].server
                  /\ serversCreated' = serversCreated
             ELSE /\ sessions'[id].server = serversCreated + 1
                  /\ serversCreated' = serversCreated + 1

\* a session leaves the table only when its lastActivity is more than 30 minutes old
RemovedWhenIdle ==
  \A id \in DOMAIN sessions :
    id \notin DOMAIN sessions' => now - sessions[id].lastActivity > SessionTimeout

\* C30: under any interleaving of POST /mcp requests and runs of the sweep there
\* is at most one session per session id (a request without x-mcp-session-id uses
\* 'default'), a request for a known id reuses the session and sets its
\* lastActivity to the current time, and the sweep removes a session only if its
\* lastActivity is more than 30 minutes old.
C30_SessionTable ==
  /\ [](\A a, b \in DOMAIN sessions :
          /\ sessions[a].server \in 1..serversCreated
          /\ sessions[a].lastActivity <= now
          /\ a # b => sessions[a].server # sessions[b].server)
  /\ [][SessionServed]_vars
  /\ [][RemovedWhenIdle]_vars

\* session 's' was reused five minutes after it was made and survived the sweep
\* that ran when it was idle for exactly 30 minutes; that sweep removed the session
\* 'default', idle for 35 minutes, and a request has made a new one since
C30_Witness ==
  /\ now = 35
  /\ serversCreated = 3
  /\ DOMAIN sessions = {<<"s">>, <<"d","e","f","a","u","l","t">>}
  /\ sessions[<<"s">>] = [server |-> 1, lastActivity |-> 5]
  /\ sessions[<<"d","e","f","a","u","l","t">>] = [server |-> 3, lastActivity |-> 35]

====
